---- MODULE Spec2Model ----
(***************************************************************************)
(* Model of the subtitle core of Audio_Subtitler_Version2.0:               *)
(*   - group_into_sentences  (backend/Extractor/script_generator.py)       *)
(*   - smart_wrap            (backend/Extractor/script_generator.py)       *)
(*   - the word_segments conversion of ExtractorService.transcribe_audio   *)
(*     and transcribe_with_external_api                                    *)
(*                                                                         *)
(* Python strings are sequences of one-character strings.  A Python value  *)
(* that may be None is <<>> (None) or <<v>> (the value v).  A dict of a    *)
(* timed word is a record with the field "keys" holding the keys that are  *)
(* present.  Times are integers (seconds).                                 *)
(***************************************************************************)
EXTENDS Integers, Sequences, FiniteSets, TLC

\* ------------------------------------------------------------------ bounds
MaxWords == 3       \* longest word sequence handed to group_into_sentences
MaxStep == 2        \* largest distance between the starts of two consecutive words
MaxTextLen == 6     \* longest text handed to smart_wrap
MaxLine == 4        \* largest max_chars_per_line

\* --------------------------------------------------------- Python helpers
None == <<>>
Some(v) == <<v>>

\* `a or b` for a number that may be None: None and 0 are both falsy
OrElse(opt, d) == IF opt = None \/ opt[1] = 0 THEN d ELSE opt[1]

\* A character is a one-character string when its code point is at most
\* U+00FF, and the token "U+" followed by the hexadecimal code point (four
\* digits at least) above that.  The classes are those of Unicode 14.0.
\* The texts the specifications try keep to ASCII and to characters above
\* U+00FF: TLC stores the characters of a state's strings in one byte each.
HexDigits ==
    <<"0", "1", "2", "3", "4", "5", "6", "7", "8", "9", "A", "B", "C", "D", "E", "F">>

RECURSIVE Hex(_)
Hex(n) == IF n < 16 THEN HexDigits[n + 1]
          ELSE Hex(n \div 16) \o HexDigits[(n % 16) + 1]

\* the character of code point n > 255
CodePoint(n) == "U+" \o (IF n < 4096 THEN "0" ELSE "") \o Hex(n)

WhiteSpacePoints ==
    (8192..8202) \cup (8232..8233) \cup {5760, 8239, 8287, 12288}

\* the characters c with c.isspace(): the whitespace of split(), strip()
\* and of \s in a pattern
WhiteSpace ==
    {"\t", "\n", "", "\f", "\r", "", "", "", "", " ", "", " "}
    \cup {CodePoint(n) : n \in WhiteSpacePoints}

IsSpace(c) == c \in WhiteSpace

\* the code points of the zeros of the decimal digits outside ASCII
DigitZeros ==
    {1632, 1776, 1984, 2406, 2534, 2662, 2790, 2918, 3046, 3174, 3302, 3430,
     3558, 3664, 3792, 3872, 4160, 4240, 6112, 6160, 6470, 6608, 6784, 6800,
     6992, 7088, 7232, 7248, 42528, 43216, 43264, 43472, 43504, 43600,
     44016, 65296, 66720, 68912, 69734, 69872, 69942, 70096, 70384, 70736,
     70864, 71248, 71360, 71472, 71904, 72016, 72784, 73040, 73120, 92768,
     92864, 93008, 120782, 120792, 120802, 120812, 120822, 123200, 123632,
     125264, 130032}

RECURSIVE JoinWith(_, _)
\* sep.join(strs)
JoinWith(strs, sep) ==
    IF strs = <<>> THEN <<>>
    ELSE IF Len(strs) = 1 THEN strs[1]
    ELSE strs[1] \o sep \o JoinWith(Tail(strs), sep)

RECURSIVE LStrip(_)
LStrip(s) == IF s # <<>> /\ IsSpace(s[1]) THEN LStrip(Tail(s)) ELSE s

RECURSIVE RStrip(_)
RStrip(s) ==
    IF s # <<>> /\ IsSpace(s[Len(s)]) THEN RStrip(SubSeq(s, 1, Len(s) - 1)) ELSE s

\* str.strip()
Strip(s) == LStrip(RStrip(s))

RECURSIVE SplitAcc(_, _, _)
\* str.split(sep) for a one-character sep: empty fields are kept
SplitAcc(s, sep, cur) ==
    IF s = <<>> THEN <<cur>>
    ELSE IF s[1] = sep THEN <<cur>> \o SplitAcc(Tail(s), sep, <<>>)
    ELSE SplitAcc(Tail(s), sep, Append(cur, s[1]))

SplitOn(s, sep) == SplitAcc(s, sep, <<>>)

RECURSIVE SplitWsAcc(_, _)
SplitWsAcc(s, cur) ==
    IF s = <<>> THEN (IF cur = <<>> THEN <<>> ELSE <<cur>>)
    ELSE IF IsSpace(s[1])
         THEN (IF cur = <<>> THEN <<>> ELSE <<cur>>) \o SplitWsAcc(Tail(s), <<>>)
         ELSE SplitWsAcc(Tail(s), Append(cur, s[1]))

\* str.split() without argument: runs of whitespace separate, no empty fields
SplitWs(s) == SplitWsAcc(s, <<>>)

\* str.endswith(tuple of one-character strings)
EndsWithAny(s, chars) == s # <<>> /\ s[Len(s)] \in chars

\* str.endswith(suffix)
EndsWith(s, suf) ==
    Len(s) >= Len(suf) /\ SubSeq(s, Len(s) - Len(suf) + 1, Len(s)) = suf

\* what a call ends with: the value returned or the exception raised, and
\* the number of requests it made to the translation service
Returns(value, requests) ==
    [kind |-> "return", value |-> value, error |-> "", requests |-> requests]
Raises(error, requests) ==
    [kind |-> "raise", value |-> <<>>, error |-> error, requests |-> requests]

\* ------------------------------------------------------------ timed words
Unknown == <<"U", "n", "k", "n", "o", "w", "n">>
Speaker_0 == <<"S", "p", "e", "a", "k", "e", "r", "_", "0">>

\* d[key]: the caller checks HasKey first (a missing key raises KeyError)
HasKey(w, k) == k \in w.keys

\* w.get("speaker"): None when the key is absent
GetSpeaker(w) == IF HasKey(w, "speaker") THEN Some(w.speaker) ELSE None

\* w.get("speaker", "Unknown")
GetSpeakerOrUnknown(w) == IF HasKey(w, "speaker") THEN w.speaker ELSE Unknown

\* the sentence-final marks of the punctuation back-scan
SplitPunct == {".", "!", "?", ","}

VARIABLES
    pc,             \* "loop" | "done" | "error": position in the extraction path
    kind,           \* format of the transcription response
    raw,            \* the words of the transcription response seen so far
    words,          \* the word_segments list given to group_into_sentences, so far
    pause_threshold,
    max_duration,
    subtitles,      \* group_into_sentences.subtitles
    current_words,  \* indices into words (the list holds references to the dicts)
    start_time,
    last_end_time,
    speaker,
    cue_words,      \* history: for each emitted cue the indices of the words flushed
    carried,        \* history: for each emitted cue, how many leading words were
                    \* re-seeded from the previous buffer by the punctuation split
    ncarry,         \* how many leading words of current_words were re-seeded
    result,         \* return value of group_into_sentences, None until it returns
    wpc,            \* "idle" | "call" | "wrapped" | "rewrapped"
    wtext,          \* smart_wrap: text
    wmax,           \* smart_wrap: max_chars_per_line
    wlines,         \* the list smart_wrap returned
    wstage,         \* which return statement produced it
    wagain          \* smart_wrap applied to the first returned line

segvars == <<pc, kind, raw, words, pause_threshold, max_duration, subtitles,
             current_words, start_time, last_end_time, speaker, cue_words,
             carried, ncarry, result>>

wrapvars == <<wpc, wtext, wmax, wlines, wstage, wagain>>

VARIABLES
    f_pc,           \* "idle" | "call" | "done": srt_time_format
    f_seconds,      \* srt_time_format: seconds, as [whole, frac] = whole + frac/2048
    f_out           \* the string srt_time_format returned

fmtvars == <<f_pc, f_seconds, f_out>>

VARIABLES
    a_pc,                 \* "idle" | "loop" | "done" | "written" | "shown" | "raised"
    srt_subtitles,        \* align_translations_to_srt: the cues
    translated_dialogue,  \* align_translations_to_srt: the translated lines
    aligned,              \* align_translations_to_srt.aligned
    td_index,             \* the cursor into translated_dialogue
    tl_outs,              \* history: per cue, the translate_line calls made and their outcomes
    a_file,               \* what write_srt_file wrote, one string per f.write
    a_error               \* the exception that ended the rendering, "" when none

alignvars == <<a_pc, srt_subtitles, translated_dialogue, aligned, td_index,
               tl_outs, a_file, a_error>>

VARIABLES
    d_pc,             \* "idle" | "loop" | "done": save_dialogue_txt
    d_subtitles,      \* save_dialogue_txt: the cues
    d_i,              \* the number of cues the loop has taken
    current_speaker,  \* None until the first cue
    buffer,           \* the utterances of the open block
    d_file            \* what was written, one string per f.write

dlgvars == <<d_pc, d_subtitles, d_i, current_speaker, buffer, d_file>>

VARIABLES
    p_pc,             \* "idle" | "run": the three parsers of "Speaker: text"
    p_line,           \* the line given to each parser
    p_fmt,            \* None, or what parse_speaker_and_text returned
    p_script,         \* None, or what parse_script_file returned for the one-line file
    p_trans           \* None, or what parse_translated_dialogue returned

parsevars == <<p_pc, p_line, p_fmt, p_script, p_trans>>

VARIABLES
    t_pc,             \* "idle" | "import" | "call" | "returned" | "raised": translation.py
    t_env,            \* the module globals after lines 8-26: [names, GEMINI_AVAILABLE]
    t_fn,             \* "translate_line" | "translate_scene": the function called
    t_text,           \* translate_line: text
    t_max_retries,    \* translate_line: max_retries
    t_dialogue,       \* translate_scene: dialogue
    t_responses,      \* what the model service answers to the successive requests
    t_requests,       \* the number of requests made to the service
    t_result,         \* the string returned, <<>> before the return
    t_error           \* the exception raised, "" when none

translatevars == <<t_pc, t_env, t_fn, t_text, t_max_retries, t_dialogue, t_responses, t_requests, t_result, t_error>>

VARIABLES
    pl_pc,            \* "idle" | "request" | "group" | "dialogue" | "align" | "overlay" | "except" | "finally" | "returned" | "delivered": process_video
    pl_same_language, \* target_language.lower() == detected_lang.lower()
    pl_tmpdir,        \* None once removed, else the files put in the temporary directory (the translated SRT is a_file)
    pl_srt,           \* the content of subtitles.srt
    pl_dialogue,      \* what parse_script_file returned
    pl_translated,    \* None, or what the call of translate_scene ended with
    pl_error,         \* the message of the exception caught at line 145, "" when none
    pl_response,      \* the response object the handler returned
    pl_sent           \* "" | "video" | "json" | "RuntimeError": what the server sent for it

pipevars == <<pl_pc, pl_same_language, pl_tmpdir, pl_srt, pl_dialogue, pl_translated, pl_error, pl_response, pl_sent>>

vars == <<segvars, wrapvars, fmtvars, alignvars, dlgvars, parsevars, translatevars, pipevars>>

\* the variables of the other components, for the frame of each action
notseg == <<wrapvars, fmtvars, alignvars, dlgvars, parsevars, translatevars, pipevars>>
notwrap == <<segvars, fmtvars, alignvars, dlgvars, parsevars, translatevars, pipevars>>
notfmt == <<segvars, wrapvars, alignvars, dlgvars, parsevars, translatevars, pipevars>>
notalign == <<segvars, wrapvars, fmtvars, dlgvars, parsevars, translatevars, pipevars>>
notdlg == <<segvars, wrapvars, fmtvars, alignvars, parsevars, translatevars, pipevars>>
notparse == <<segvars, wrapvars, fmtvars, alignvars, dlgvars, translatevars, pipevars>>
nottranslate == <<segvars, wrapvars, fmtvars, alignvars, dlgvars, parsevars, pipevars>>
notpipe == <<segvars, wrapvars, fmtvars, alignvars, dlgvars, parsevars, translatevars>>

\* srt_time_format is not running
FmtIdle == f_pc = "idle" /\ f_seconds = [whole |-> 0, frac |-> 0] /\ f_out = <<>>

\* align_translations_to_srt is not running
AlignIdle ==
    /\ a_pc = "idle"
    /\ srt_subtitles = <<>>
    /\ translated_dialogue = <<>>
    /\ aligned = <<>>
    /\ td_index = 0
    /\ tl_outs = <<>>
    /\ a_file = <<>>
    /\ a_error = ""

\* save_dialogue_txt is not running
DlgIdle ==
    /\ d_pc = "idle"
    /\ d_subtitles = <<>>
    /\ d_i = 0
    /\ current_speaker = <<>>
    /\ buffer = <<>>
    /\ d_file = <<>>


\* the parsers are not running
ParseIdle ==
    /\ p_pc = "idle"
    /\ p_line = <<>>
    /\ p_fmt = <<>>
    /\ p_script = <<>>
    /\ p_trans = <<>>


\* translation.py is not loaded
TranslateIdle ==
    /\ t_pc = "idle"
    /\ t_env = [names |-> {}, GEMINI_AVAILABLE |-> FALSE]
    /\ t_fn = "translate_line"
    /\ t_text = <<>>
    /\ t_max_retries = 0
    /\ t_dialogue = <<>>
    /\ t_responses = <<>>
    /\ t_requests = 0
    /\ t_result = <<>>
    /\ t_error = ""


\* no request is being processed
NoResponse == [kind |-> "none", status |-> 0, content |-> ""]

PipeIdle ==
    /\ pl_pc = "idle"
    /\ pl_same_language = FALSE
    /\ pl_tmpdir = <<>>
    /\ pl_srt = <<>>
    /\ pl_dialogue = <<>>
    /\ pl_translated = <<>>
    /\ pl_error = ""
    /\ pl_response = NoResponse
    /\ pl_sent = ""

\* -------------------------------------------------- group_into_sentences
\* w["word"] of line 26 raises KeyError for a buffered word without the key
LacksWord(cw, ws) == \E k \in 1..Len(cw) : ~HasKey(ws[cw[k]], "word")

\* flush() with the two timestamps exchanged
flush_swapped(subs, cw, ws, st, le, sp) ==
    IF cw = <<>> THEN Returns(subs, 0)
    ELSE IF LacksWord(cw, ws) THEN Raises("KeyError", 0)
    ELSE Returns(Append(subs,
                [start |-> le[1],
                 end   |-> st[1],
                 text  |-> sp[1] \o <<":", " ">>
                           \o Strip(JoinWith([k \in 1..Len(cw) |-> ws[cw[k]].word],
                                             <<" ">>))]), 0)

\* flush(): subtitles with the cue appended (unchanged when the buffer is
\* empty), or the KeyError of line 26
flush(subs, cw, ws, st, le, sp) ==
    IF cw = <<>> THEN Returns(subs, 0)
    ELSE IF LacksWord(cw, ws) THEN Raises("KeyError", 0)
    ELSE Returns(Append(subs,
                [start |-> st[1],
                 end   |-> le[1],
                 text  |-> sp[1] \o <<":", " ">>
                           \o Strip(JoinWith([k \in 1..Len(cw) |-> ws[cw[k]].word],
                                             <<" ">>))]), 0)

\* the history kept beside flush(): which words the cue was built from
flushWords(cws, cw) == IF cw = <<>> THEN cws ELSE Append(cws, cw)

flushCarried(cs, cw, n) == IF cw = <<>> THEN cs ELSE Append(cs, n)

\* for i in range(len(current_words) - 1, -1, -1): the last buffered word that
\* ends in punctuation, as a 1-based position, 0 when the loop finds none
LastPunct(cw, ws) ==
    LET hits == {i \in 1..Len(cw) : /\ HasKey(ws[cw[i]], "word")
                                   /\ EndsWithAny(ws[cw[i]].word, SplitPunct)}
    IN IF hits = {} THEN 0 ELSE CHOOSE i \in hits : \A j \in hits : j <= i

\* the back-scan reads current_words[i]["word"] (line 50): it raises KeyError
\* at a word without the key that it reaches before a punctuated word
ScanRaises(cw, ws) ==
    \E j \in 1..Len(cw) : ~HasKey(ws[cw[j]], "word") /\ j > LastPunct(cw, ws)

\* One iteration of `for w in words` (lines 33-68) for the word w
LoopBody(w) ==
    IF ~HasKey(w, "start") \/ ~HasKey(w, "end")
    THEN \* w["start"] (line 35/39) or w["end"] (line 68) raises KeyError
         /\ pc' = "error"
         /\ words' = Append(words, w)
         /\ UNCHANGED <<subtitles, current_words, start_time, last_end_time,
                        speaker, cue_words, carried, ncarry, result>>
    ELSE
    LET ws == Append(words, w)
        n == Len(ws)
        st0 == IF start_time = None THEN Some(w.start) ELSE start_time
        sp0 == IF start_time = None THEN Some(GetSpeakerOrUnknown(w)) ELSE speaker
        base == OrElse(last_end_time, w.start)
        time_gap == w.start - base
        duration_so_far == base - st0[1]
        boundary == \/ time_gap > pause_threshold
                    \/ GetSpeaker(w) # sp0
                    \/ duration_so_far >= max_duration
        i == LastPunct(current_words, ws)
        resplit == boundary /\ duration_so_far >= max_duration
                   /\ current_words # <<>> /\ i > 0
        kept == IF resplit THEN SubSeq(current_words, i + 1, Len(current_words))
                ELSE <<>>
        flushed == flush(subtitles, current_words, ws, st0, last_end_time, sp0)
        keyError == /\ boundary
                    /\ \/ /\ duration_so_far >= max_duration
                          /\ ScanRaises(current_words, ws)
                       \/ flushed.kind = "raise"
    IN IF keyError
       THEN \* current_words[i]["word"] (line 50) or w["word"] (line 26)
            \* raises KeyError
            /\ pc' = "error"
            /\ words' = ws
            /\ UNCHANGED <<subtitles, current_words, start_time, last_end_time,
                           speaker, cue_words, carried, ncarry, result>>
       ELSE
       /\ pc' = "loop"
       /\ words' = ws
       /\ result' = None
       /\ IF boundary
          THEN /\ subtitles' = flushed.value
               /\ cue_words' = flushWords(cue_words, current_words)
               /\ carried' = flushCarried(carried, current_words, ncarry)
               /\ current_words' = Append(kept, n)
               /\ ncarry' = Len(kept)
               /\ start_time' = Some(w.start)
               /\ speaker' = Some(GetSpeakerOrUnknown(w))
          ELSE /\ UNCHANGED <<subtitles, cue_words, carried, ncarry>>
               /\ current_words' = Append(current_words, n)
               /\ start_time' = st0
               /\ speaker' = sp0
       /\ last_end_time' = Some(w.end)

\* lines 70-71: the final flush() and the return
Return ==
    /\ pc = "loop"
    /\ LET flushed == flush(subtitles, current_words, words, start_time,
                            last_end_time, speaker)
       IN IF flushed.kind = "raise"
          THEN \* w["word"] (line 26) raises KeyError in the final flush()
               /\ pc' = "error"
               /\ UNCHANGED <<subtitles, cue_words, carried, result>>
          ELSE /\ pc' = "done"
               /\ subtitles' = flushed.value
               /\ cue_words' = flushWords(cue_words, current_words)
               /\ carried' = flushCarried(carried, current_words, ncarry)
               /\ result' = Some(flushed.value)
    /\ UNCHANGED <<kind, raw, words, pause_threshold, max_duration, current_words,
                   start_time, last_end_time, speaker, ncarry>>
    /\ UNCHANGED notseg

\* ------------------------------------------------------- the input words
Texts == {<<"a">>, <<"b", ",">>}
Speakers == {<<"A">>, <<"B">>}
AllKeys == {"word", "start", "end", "speaker"}

\* how long a word lasts
WordDurs == {0, 1}

\* start of the next word: words arrive ordered by start, the first at 0
NextStarts(prev) ==
    IF prev = <<>> THEN {0}
    ELSE {prev[Len(prev)].start + ds : ds \in 0..MaxStep}

\* well-timed words, with or without a speaker label
SegInputs(prev) ==
    {[word |-> t, start |-> s, end |-> s + d, speaker |-> sp, keys |-> AllKeys] :
        t \in Texts, s \in NextStarts(prev), d \in WordDurs, sp \in Speakers}
    \cup
    {[word |-> t, start |-> s, end |-> s + d, speaker |-> <<>>,
      keys |-> AllKeys \ {"speaker"}] :
        t \in Texts, s \in NextStarts(prev), d \in WordDurs}

\* words of a transcription response; any one key may be absent
RawInputs(prev) ==
    {[word |-> <<"a">>, start |-> s, end |-> s + d, speaker |-> <<"A">>,
      keys |-> AllKeys \ miss] :
        s \in NextStarts(prev), d \in WordDurs,
        miss \in {{}, {"word"}, {"start"}, {"end"}, {"speaker"}}}

\* ------------------------------------------------ transcription response
\* transcribe_audio / transcribe_with_external_api: a response that has
\* "word_segments" is returned as is, the words of a "segments" response are
\* rebuilt with word.get(key, default)
ConvertWord(k, w) ==
    IF k = "word_segments" THEN w
    ELSE [word    |-> IF HasKey(w, "word") THEN w.word ELSE <<>>,
          start   |-> IF HasKey(w, "start") THEN w.start ELSE 0,
          end     |-> IF HasKey(w, "end") THEN w.end ELSE 0,
          speaker |-> IF HasKey(w, "speaker") THEN w.speaker ELSE Speaker_0,
          keys    |-> AllKeys]

\* the values of the two parameters of group_into_sentences that are tried
PauseThresholds == {1}
MaxDurations == {2, 3}

\* no smart_wrap call is in progress
WrapIdle ==
    /\ wpc = "idle"
    /\ wtext = <<>>
    /\ wmax = 0
    /\ wlines = <<>>
    /\ wstage = "none"
    /\ wagain = <<>>

\* the locals of group_into_sentences at its first line (lines 17-21)
SegLocals ==
    /\ raw = <<>>
    /\ words = <<>>
    /\ subtitles = <<>>
    /\ current_words = <<>>
    /\ start_time = None
    /\ last_end_time = None
    /\ speaker = None
    /\ cue_words = <<>>
    /\ carried = <<>>
    /\ ncarry = 0
    /\ result = None

\* group_into_sentences on a well-timed word list
\* the call group_into_sentences(words, pause_threshold, max_duration)
SegCall ==
    /\ pc = "loop"
    /\ pause_threshold \in PauseThresholds
    /\ max_duration \in MaxDurations
    /\ SegLocals

SegInit == SegCall /\ WrapIdle /\ FmtIdle /\ AlignIdle /\ DlgIdle /\ ParseIdle /\ TranslateIdle /\ PipeIdle /\ kind = "word_segments"

SegWord ==
    /\ pc = "loop"
    /\ Len(words) < MaxWords
    /\ \E w \in SegInputs(raw) :
          /\ raw' = Append(raw, w)
          /\ LoopBody(ConvertWord(kind, w))
    /\ UNCHANGED <<kind, pause_threshold, max_duration>>
    /\ UNCHANGED notseg

SegNext == SegWord \/ Return

SpecSeg == SegInit /\ [][SegNext]_vars

\* the path from the transcription response to the cues
TrInit ==
    /\ SegCall /\ WrapIdle /\ FmtIdle /\ AlignIdle /\ DlgIdle /\ ParseIdle /\ TranslateIdle /\ PipeIdle
    /\ kind \in {"word_segments", "segments"}

TrWord ==
    /\ pc = "loop"
    /\ Len(words) < MaxWords
    /\ \E w \in RawInputs(raw) :
          /\ raw' = Append(raw, w)
          /\ LoopBody(ConvertWord(kind, w))
    /\ UNCHANGED <<kind, pause_threshold, max_duration>>
    /\ UNCHANGED notseg

TrNext == TrWord \/ Return

SpecTranscribe == TrInit /\ [][TrNext]_vars

\* -------------------------------------------------------------- smart_wrap
UpperPoints ==
    {256 + 2 * k : k \in 0..27} \cup {313 + 2 * k : k \in 0..7} \cup
    {330 + 2 * k : k \in 0..23} \cup {377 + 2 * k : k \in 0..2} \cup
    (385..386) \cup (390..391) \cup (393..395) \cup (398..401) \cup
    (403..404) \cup (406..408) \cup (412..413) \cup (415..416) \cup
    {418 + 2 * k : k \in 0..2} \cup (430..431) \cup (433..435) \cup
    (439..440) \cup {461 + 2 * k : k \in 0..7} \cup
    {478 + 2 * k : k \in 0..8} \cup (502..504) \cup
    {506 + 2 * k : k \in 0..28} \cup (570..571) \cup (573..574) \cup
    (579..582) \cup {584 + 2 * k : k \in 0..3} \cup (904..906) \cup
    (910..911) \cup (913..929) \cup (931..939) \cup (978..980) \cup
    {984 + 2 * k : k \in 0..11} \cup (1017..1018) \cup (1021..1071) \cup
    {1120 + 2 * k : k \in 0..16} \cup {1162 + 2 * k : k \in 0..27} \cup
    {1217 + 2 * k : k \in 0..6} \cup {1232 + 2 * k : k \in 0..47} \cup
    (1329..1366) \cup (4256..4293) \cup (5024..5109) \cup (7312..7354) \cup
    (7357..7359) \cup {7680 + 2 * k : k \in 0..74} \cup
    {7838 + 2 * k : k \in 0..48} \cup (7944..7951) \cup (7960..7965) \cup
    (7976..7983) \cup (7992..7999) \cup (8008..8013) \cup
    {8025 + 2 * k : k \in 0..3} \cup (8040..8047) \cup (8120..8123) \cup
    (8136..8139) \cup (8152..8155) \cup (8168..8172) \cup (8184..8187) \cup
    (8459..8461) \cup (8464..8466) \cup (8473..8477) \cup
    {8484 + 2 * k : k \in 0..3} \cup (8491..8493) \cup (8496..8499) \cup
    (8510..8511) \cup (8544..8559) \cup (9398..9423) \cup (11264..11311) \cup
    (11362..11364) \cup {11367 + 2 * k : k \in 0..3} \cup (11374..11376) \cup
    (11390..11392) \cup {11394 + 2 * k : k \in 0..48} \cup
    {42560 + 2 * k : k \in 0..22} \cup {42624 + 2 * k : k \in 0..13} \cup
    {42786 + 2 * k : k \in 0..6} \cup {42802 + 2 * k : k \in 0..30} \cup
    {42873 + 2 * k : k \in 0..2} \cup {42878 + 2 * k : k \in 0..4} \cup
    {42902 + 2 * k : k \in 0..10} \cup (42923..42926) \cup (42928..42932) \cup
    {42934 + 2 * k : k \in 0..7} \cup (42949..42951) \cup (65313..65338) \cup
    (66560..66599) \cup (66736..66771) \cup (66928..66938) \cup
    (66940..66954) \cup (66956..66962) \cup (66964..66965) \cup
    (68736..68786) \cup (71840..71871) \cup (93760..93791) \cup
    (119808..119833) \cup (119860..119885) \cup (119912..119937) \cup
    (119966..119967) \cup (119973..119974) \cup (119977..119980) \cup
    (119982..119989) \cup (120016..120041) \cup (120068..120069) \cup
    (120071..120074) \cup (120077..120084) \cup (120086..120092) \cup
    (120120..120121) \cup (120123..120126) \cup (120128..120132) \cup
    (120138..120144) \cup (120172..120197) \cup (120224..120249) \cup
    (120276..120301) \cup (120328..120353) \cup (120380..120405) \cup
    (120432..120457) \cup (120488..120512) \cup (120546..120570) \cup
    (120604..120628) \cup (120662..120686) \cup (120720..120744) \cup
    (125184..125217) \cup (127280..127305) \cup (127312..127337) \cup
    (127344..127369) \cup
    {388, 423, 425, 428, 437, 444, 452, 455, 458, 497, 500, 577, 880, 882, 886, 895, 902, 908, 975, 1012, 1015, 4295, 4301, 8450, 8455, 8469, 8517, 8579, 11360, 11378, 11381, 11499, 11501, 11506, 42891, 42893, 42896, 42898, 42953, 42960, 42966, 42968, 42997, 119964, 119970, 120134, 120778}

\* the characters c with c.isupper()
Upper ==
    {"A", "B", "C", "D", "E", "F", "G", "H", "I", "J", "K", "L", "M", "N",
     "O", "P", "Q", "R", "S", "T", "U", "V", "W", "X", "Y", "Z", "À", "Á",
     "Â", "Ã", "Ä", "Å", "Æ", "Ç", "È", "É", "Ê", "Ë", "Ì", "Í", "Î", "Ï",
     "Ð", "Ñ", "Ò", "Ó", "Ô", "Õ", "Ö", "Ø", "Ù", "Ú", "Û", "Ü", "Ý", "Þ"}
    \cup {CodePoint(n) : n \in UpperPoints}

LowerPoints ==
    {257 + 2 * k : k \in 0..27} \cup {312 + 2 * k : k \in 0..8} \cup
    {329 + 2 * k : k \in 0..23} \cup {378 + 2 * k : k \in 0..2} \cup
    (383..384) \cup (396..397) \cup (409..411) \cup
    {417 + 2 * k : k \in 0..2} \cup (426..427) \cup (441..442) \cup
    (445..447) \cup {460 + 2 * k : k \in 0..8} \cup
    {477 + 2 * k : k \in 0..9} \cup {505 + 2 * k : k \in 0..29} \cup
    (564..569) \cup (575..576) \cup {583 + 2 * k : k \in 0..4} \cup
    (592..659) \cup (661..696) \cup (704..705) \cup (736..740) \cup
    (890..893) \cup (940..974) \cup (976..977) \cup (981..983) \cup
    {985 + 2 * k : k \in 0..11} \cup (1008..1011) \cup (1019..1020) \cup
    (1072..1119) \cup {1121 + 2 * k : k \in 0..16} \cup
    {1163 + 2 * k : k \in 0..26} \cup {1218 + 2 * k : k \in 0..6} \cup
    {1231 + 2 * k : k \in 0..48} \cup (1376..1416) \cup (4304..4346) \cup
    (4349..4351) \cup (5112..5117) \cup (7296..7304) \cup (7424..7615) \cup
    {7681 + 2 * k : k \in 0..74} \cup (7830..7837) \cup
    {7839 + 2 * k : k \in 0..48} \cup (7936..7943) \cup (7952..7957) \cup
    (7968..7975) \cup (7984..7991) \cup (8000..8005) \cup (8016..8023) \cup
    (8032..8039) \cup (8048..8061) \cup (8064..8071) \cup (8080..8087) \cup
    (8096..8103) \cup (8112..8116) \cup (8118..8119) \cup (8130..8132) \cup
    (8134..8135) \cup (8144..8147) \cup (8150..8151) \cup (8160..8167) \cup
    (8178..8180) \cup (8182..8183) \cup (8336..8348) \cup (8462..8463) \cup
    (8508..8509) \cup (8518..8521) \cup (8560..8575) \cup (9424..9449) \cup
    (11312..11359) \cup (11365..11366) \cup {11368 + 2 * k : k \in 0..2} \cup
    (11379..11380) \cup (11382..11389) \cup {11393 + 2 * k : k \in 0..49} \cup
    (11520..11557) \cup {42561 + 2 * k : k \in 0..22} \cup
    {42625 + 2 * k : k \in 0..13} \cup (42652..42653) \cup
    {42787 + 2 * k : k \in 0..6} \cup (42800..42801) \cup
    {42803 + 2 * k : k \in 0..30} \cup (42864..42872) \cup
    {42879 + 2 * k : k \in 0..4} \cup (42899..42901) \cup
    {42903 + 2 * k : k \in 0..9} \cup {42933 + 2 * k : k \in 0..7} \cup
    {42961 + 2 * k : k \in 0..4} \cup (43000..43002) \cup (43824..43866) \cup
    (43868..43880) \cup (43888..43967) \cup (64256..64262) \cup
    (64275..64279) \cup (65345..65370) \cup (66600..66639) \cup
    (66776..66811) \cup (66967..66977) \cup (66979..66993) \cup
    (66995..67001) \cup (67003..67004) \cup (67459..67461) \cup
    (67463..67504) \cup (67506..67514) \cup (68800..68850) \cup
    (71872..71903) \cup (93792..93823) \cup (119834..119859) \cup
    (119886..119892) \cup (119894..119911) \cup (119938..119963) \cup
    (119990..119993) \cup (119997..120003) \cup (120005..120015) \cup
    (120042..120067) \cup (120094..120119) \cup (120146..120171) \cup
    (120198..120223) \cup (120250..120275) \cup (120302..120327) \cup
    (120354..120379) \cup (120406..120431) \cup (120458..120485) \cup
    (120514..120538) \cup (120540..120545) \cup (120572..120596) \cup
    (120598..120603) \cup (120630..120654) \cup (120656..120661) \cup
    (120688..120712) \cup (120714..120719) \cup (120746..120770) \cup
    (120772..120777) \cup (122624..122633) \cup (122635..122654) \cup
    (125218..125251) \cup
    {387, 389, 392, 402, 405, 414, 424, 429, 432, 436, 438, 454, 457, 496, 499, 501, 572, 578, 837, 881, 883, 887, 912, 1013, 1016, 8126, 8305, 8319, 8458, 8467, 8495, 8500, 8505, 8526, 8580, 11361, 11377, 11492, 11500, 11502, 11507, 11559, 11565, 42874, 42876, 42892, 42894, 42897, 42927, 42952, 42954, 42998, 67456, 119995, 120779}

\* the characters c with c.islower()
Lower ==
    {"a", "b", "c", "d", "e", "f", "g", "h", "i", "j", "k", "l", "m", "n",
     "o", "p", "q", "r", "s", "t", "u", "v", "w", "x", "y", "z", "ª", "µ",
     "º", "ß", "à", "á", "â", "ã", "ä", "å", "æ", "ç", "è", "é", "ê", "ë",
     "ì", "í", "î", "ï", "ð", "ñ", "ò", "ó", "ô", "õ", "ö", "ø", "ù", "ú",
     "û", "ü", "ý", "þ", "ÿ"}
    \cup {CodePoint(n) : n \in LowerPoints}

TitlePoints ==
    (8072..8079) \cup (8088..8095) \cup (8104..8111) \cup
    {453, 456, 459, 498, 8124, 8140, 8188}

\* the titlecase characters (Dz with caron and the like)
Title == {CodePoint(n) : n \in TitlePoints}

\* str.islower(): at least one lowercase character and no uppercase or
\* titlecase one
IsLower(s) ==
    /\ \E k \in 1..Len(s) : s[k] \in Lower
    /\ \A k \in 1..Len(s) : s[k] \notin Upper \cup Title

RECURSIVE LStripChars(_, _)
LStripChars(s, chars) ==
    IF s # <<>> /\ s[1] \in chars THEN LStripChars(Tail(s), chars) ELSE s

RECURSIVE RStripChars(_, _)
RStripChars(s, chars) ==
    IF s # <<>> /\ s[Len(s)] \in chars
    THEN RStripChars(SubSeq(s, 1, Len(s) - 1), chars) ELSE s

\* str.strip(chars)
StripChars(s, chars) == LStripChars(RStripChars(s, chars), chars)

\* the characters of word.strip(" ,.;:!?\"'")
EdgePunct == {" ", ",", ".", ";", ":", "!", "?", "\"", "'"}

\* the marks after which a split is a candidate
BreakPunct == {".", ",", ";", ":", "!", "?"}

\* normalized = " ".join(text.split())
Normalize(text) == JoinWith(SplitWs(text), <<" ">>)

is_capitalized(word) == Len(word) > 0 /\ word[1] \in Upper

is_small_word(word) == Len(word) <= 3 /\ IsLower(word)

looks_like_verb(word) ==
    \/ EndsWith(word, <<"e", "d">>)
    \/ EndsWith(word, <<"i", "n", "g">>)
    \/ EndsWith(word, <<"e", "n">>)
    \/ Len(word) > 3

\* is_bad_split without the small-word rules
is_bad_split_capsOnly(tokens, left_idx) ==
    IF left_idx < 0 \/ left_idx >= Len(tokens) - 1 THEN TRUE
    ELSE LET left_word == StripChars(tokens[left_idx + 1], EdgePunct)
             right_word == StripChars(tokens[left_idx + 2], EdgePunct)
         IN is_capitalized(left_word) /\ is_capitalized(right_word)

\* is_bad_split(left_idx); left_idx counts from 0 as in the source
is_bad_split(tokens, left_idx) ==
    IF left_idx < 0 \/ left_idx >= Len(tokens) - 1 THEN TRUE
    ELSE LET left_word == StripChars(tokens[left_idx + 1], EdgePunct)
             right_word == StripChars(tokens[left_idx + 2], EdgePunct)
         IN \/ is_capitalized(left_word) /\ is_capitalized(right_word)
            \/ is_small_word(left_word) \/ is_small_word(right_word)
            \/ looks_like_verb(left_word) /\ is_small_word(right_word)

RECURSIVE IndicesWhere(_, _, _)
\* [i for i in range(lo, hi) if keep[i]], keep given as a set
IndicesWhere(lo, hi, keep) ==
    IF lo >= hi THEN <<>>
    ELSE (IF lo \in keep THEN <<lo>> ELSE <<>>) \o IndicesWhere(lo + 1, hi, keep)

\* candidate_indices, in the order the three loops append them
candidate_indices(tokens) ==
    LET n == Len(tokens)
        punct == {i \in 0..(n - 2) : EndsWithAny(tokens[i + 1], BreakPunct)}
        small == {i \in 0..(n - 2) : is_small_word(tokens[i + 2])}
    IN IndicesWhere(0, n - 1, punct) \o IndicesWhere(0, n - 1, small)
       \o IndicesWhere(0, n - 1, 0..(n - 2))

\* target = min(max_chars_per_line, max(len(normalized) // 2, 1))
Max2(a, b) == IF a >= b THEN a ELSE b
Min2(a, b) == IF a <= b THEN a ELSE b
Abs(a) == IF a < 0 THEN -a ELSE a
target(normalized, max_chars_per_line) ==
    Min2(max_chars_per_line, Max2(Len(normalized) \div 2, 1))

\* left_right_text(idx)
left_right_text(tokens, idx) ==
    <<JoinWith(SubSeq(tokens, 1, idx + 1), <<" ">>),
      JoinWith(SubSeq(tokens, idx + 2, Len(tokens)), <<" ">>)>>

\* the test that both lines respect the limit, with one side forgotten
FitsBoth_leftOnly(left, right, max_chars_per_line) ==
    Len(left) <= max_chars_per_line

\* len(left) <= max_chars_per_line and len(right) <= max_chars_per_line
FitsBoth(left, right, max_chars_per_line) ==
    Len(left) <= max_chars_per_line /\ Len(right) <= max_chars_per_line

RECURSIVE BestSplit(_, _, _, _, _)
\* the loop `for idx in candidate_indices`; best is None or <<(left, right)>>,
\* dist is meaningful only when best is set (float("inf") before)
BestSplit(cands, tokens, normalized, max_chars_per_line, acc) ==
    IF cands = <<>> THEN acc.best
    ELSE LET idx == cands[1]
             lr == left_right_text(tokens, idx)
             dist == Abs(Len(lr[1]) - target(normalized, max_chars_per_line))
             take == /\ ~is_bad_split(tokens, idx)
                     /\ FitsBoth(lr[1], lr[2], max_chars_per_line)
                     /\ (acc.best = None \/ dist < acc.dist)
         IN BestSplit(Tail(cands), tokens, normalized, max_chars_per_line,
                      IF take THEN [best |-> Some(lr), dist |-> dist] ELSE acc)

\* one position of the fallback scan, the space kept on the right line
SpaceSplitAt_keepSpace(normalized, pos, max_chars_per_line) ==
    IF 0 < pos /\ pos < Len(normalized) /\ normalized[pos + 1] = " "
    THEN LET left == SubSeq(normalized, 1, pos)
             right == SubSeq(normalized, pos + 1, Len(normalized))
         IN IF FitsBoth(left, right, max_chars_per_line)
            THEN Some(<<left, right>>) ELSE None
    ELSE None

\* one position of the fallback scan: None or <<[left, right]>>
SpaceSplitAt(normalized, pos, max_chars_per_line) ==
    IF 0 < pos /\ pos < Len(normalized) /\ normalized[pos + 1] = " "
    THEN LET left == SubSeq(normalized, 1, pos)
             right == SubSeq(normalized, pos + 2, Len(normalized))
         IN IF FitsBoth(left, right, max_chars_per_line)
            THEN Some(<<left, right>>) ELSE None
    ELSE None

RECURSIVE NearestSpace_leftOnly(_, _, _)
\* the fallback scan looking only at target - radius
NearestSpace_leftOnly(normalized, max_chars_per_line, radius) ==
    IF radius >= Len(normalized) THEN None
    ELSE LET t == Min2(max_chars_per_line, Max2(Len(normalized) \div 2, 1))
             lo == SpaceSplitAt(normalized, t - radius, max_chars_per_line)
         IN IF lo # None THEN lo
            ELSE NearestSpace_leftOnly(normalized, max_chars_per_line, radius + 1)

RECURSIVE NearestSpace_hiFirst(_, _, _)
\* the fallback scan looking at target + radius before target - radius
NearestSpace_hiFirst(normalized, max_chars_per_line, radius) ==
    IF radius >= Len(normalized) THEN None
    ELSE LET t == Min2(max_chars_per_line, Max2(Len(normalized) \div 2, 1))
             lo == SpaceSplitAt(normalized, t - radius, max_chars_per_line)
             hi == SpaceSplitAt(normalized, t + radius, max_chars_per_line)
         IN IF hi # None THEN hi
            ELSE IF lo # None THEN lo
            ELSE NearestSpace_hiFirst(normalized, max_chars_per_line, radius + 1)

RECURSIVE NearestSpace(_, _, _)
\* for radius in range(len(normalized)): for pos in (target-radius, target+radius)
NearestSpace(normalized, max_chars_per_line, radius) ==
    IF radius >= Len(normalized) THEN None
    ELSE LET t == target(normalized, max_chars_per_line)
             lo == SpaceSplitAt(normalized, t - radius, max_chars_per_line)
             hi == SpaceSplitAt(normalized, t + radius, max_chars_per_line)
         IN IF lo # None THEN lo
            ELSE IF hi # None THEN hi
            ELSE NearestSpace(normalized, max_chars_per_line, radius + 1)

\* s[:n]
Prefix(s, n) == SubSeq(s, 1, Min2(n, Len(s)))

\* s[n:]
Suffix(s, n) == SubSeq(s, n + 1, Len(s))

\* the last resort: hard chop
hard_chop(normalized, max_chars_per_line) ==
    <<Prefix(normalized, max_chars_per_line),
      Prefix(Suffix(normalized, max_chars_per_line), max_chars_per_line)>>

\* the single-line test with < for <=
FitsOneLine_strict(normalized, max_chars_per_line) ==
    Len(normalized) < max_chars_per_line

\* len(normalized) <= max_chars_per_line
FitsOneLine(normalized, max_chars_per_line) ==
    Len(normalized) <= max_chars_per_line

\* smart_wrap with the return statement that produced the list
smart_wrap_staged(text, max_chars_per_line) ==
    LET normalized == Normalize(text)
        tokens == SplitOn(normalized, " ")
        best_split == BestSplit(candidate_indices(tokens), tokens, normalized,
                                max_chars_per_line, [best |-> None, dist |-> 0])
        near == NearestSpace(normalized, max_chars_per_line, 0)
    IN IF FitsOneLine(normalized, max_chars_per_line)
       THEN [lines |-> <<normalized>>, stage |-> "single"]
       ELSE IF best_split # None
       THEN [lines |-> best_split[1], stage |-> "candidate"]
       ELSE IF near # None
       THEN [lines |-> near[1], stage |-> "fallback"]
       ELSE [lines |-> hard_chop(normalized, max_chars_per_line),
             stage |-> "truncate"]

smart_wrap(text, max_chars_per_line) ==
    smart_wrap_staged(text, max_chars_per_line).lines

\* the characters of the texts tried
WrapAlphabet == {"a", "B", " ", ","}

WrapTexts == UNION {[1..n -> WrapAlphabet] : n \in 0..MaxTextLen}

\* max_chars_per_line=42, the default and the value save_srt passes
DefaultMaxChars == 42

\* "Alice Johnson went to the market"
AliceText ==
    <<"A", "l", "i", "c", "e", " ", "J", "o", "h", "n", "s", "o", "n", " ", "w", "e">>
      \o <<"n", "t", " ", "t", "o", " ", "t", "h", "e", " ", "m", "a", "r", "k", "e", "t">>

\* a word of n characters: the letter c followed by "a"s
WordOf(c, n) == [k \in 1..n |-> IF k = 1 THEN c ELSE "a"]

\* the first letters of the words: lowercase and uppercase, in ASCII and
\* outside it (Greek alpha, small and capital), and the titlecase letter
\* U+01C5
FirstLetters == {"a", "B", "U+03B1", "U+0391", "U+01C5"}

\* every text of DefaultMaxChars + 1 characters made of two such words
TwoWordTexts ==
    {WordOf(c1, n) \o <<" ">> \o WordOf(c2, DefaultMaxChars - n) :
        c1 \in FirstLetters, c2 \in FirstLetters, n \in 1..(DefaultMaxChars - 1)}

\* texts that hold whitespace other than the space
OtherSpaceTexts ==
    {<<"a", sp, "a", "a">> : sp \in {"\t", "U+3000"}}

\* the calls smart_wrap(text, max_chars_per_line) that are tried
WrapCalls ==
    (WrapTexts \X (1..MaxLine))
    \cup ((TwoWordTexts \cup {AliceText}) \X {DefaultMaxChars})
    \cup (OtherSpaceTexts \X (1..MaxLine))

\* group_into_sentences is not running
SegIdle ==
    /\ pc = "idle"
    /\ pause_threshold = 0
    /\ max_duration = 0
    /\ SegLocals
    /\ kind = "word_segments"

WrapInit ==
    /\ SegIdle /\ FmtIdle /\ AlignIdle /\ DlgIdle /\ ParseIdle /\ TranslateIdle /\ PipeIdle
    /\ wpc = "call"
    /\ \E c \in WrapCalls : wtext = c[1] /\ wmax = c[2]
    /\ wlines = <<>>
    /\ wstage = "none"
    /\ wagain = <<>>

\* lines = smart_wrap(text, max_chars_per_line)
Wrap ==
    /\ wpc = "call"
    /\ wpc' = "wrapped"
    /\ wlines' = smart_wrap(wtext, wmax)
    /\ wstage' = smart_wrap_staged(wtext, wmax).stage
    /\ UNCHANGED <<wtext, wmax, wagain>>
    /\ UNCHANGED notwrap

\* smart_wrap(lines[0], max_chars_per_line)
ReWrap ==
    /\ wpc = "wrapped"
    /\ wpc' = "rewrapped"
    /\ wagain' = smart_wrap(wlines[1], wmax)
    /\ UNCHANGED <<wtext, wmax, wlines, wstage>>
    /\ UNCHANGED notwrap

WrapNext == Wrap \/ ReWrap

SpecWrap == WrapInit /\ [][WrapNext]_vars

\* --------------------------------------------------------- srt_time_format
\* A time is the record [whole, frac] standing for whole + frac/2048 seconds,
\* frac in 0..2047: such a value is exact in double precision, and so are
\* seconds % 1 and (seconds % 1) * 1000, so the integer arithmetic below is
\* what the floating-point code computes.
DigitChars == <<"0", "1", "2", "3", "4", "5", "6", "7", "8", "9">>

\* str(n) for n >= 0
RECURSIVE Decimal(_)
Decimal(n) ==
    IF n < 10 THEN <<DigitChars[n + 1]>>
    ELSE Decimal(n \div 10) \o <<DigitChars[(n % 10) + 1]>>

RECURSIVE ZeroPad(_, _)
ZeroPad(s, width) == IF Len(s) >= width THEN s ELSE ZeroPad(<<"0">> \o s, width)

\* f"{n:0<width>}" for n >= 0
FormatInt(n, width) == ZeroPad(Decimal(n), width)

\* ms = int((seconds % 1) * 1000): int() truncates
Millis(seconds) == (seconds.frac * 1000) \div 2048

srt_time_format(seconds) ==
    LET ms == Millis(seconds)
        s0 == seconds.whole
        m0 == s0 \div 60
        s  == s0 % 60
        h  == m0 \div 60
        m  == m0 % 60
    IN  FormatInt(h, 2) \o <<":">> \o FormatInt(m, 2) \o <<":">>
            \o FormatInt(s, 2) \o <<",">> \o FormatInt(ms, 3)

FmtHours == {0, 1, 100}
FmtMinutes == {0, 1, 59}
FmtSeconds == {0, 1, 12, 59}
\* 0, 1/2048, 2/2048, 0.1875, 0.5, 2047/2048
FmtFracs == {0, 1, 2, 384, 1024, 2047}

FmtInputs ==
    {[whole |-> h * 3600 + m * 60 + s, frac |-> j] :
        h \in FmtHours, m \in FmtMinutes, s \in FmtSeconds, j \in FmtFracs}

FmtInit ==
    /\ SegIdle /\ WrapIdle /\ AlignIdle /\ DlgIdle /\ ParseIdle /\ TranslateIdle /\ PipeIdle
    /\ f_pc = "call"
    /\ f_seconds \in FmtInputs
    /\ f_out = <<>>

Format ==
    /\ f_pc = "call"
    /\ f_pc' = "done"
    /\ f_out' = srt_time_format(f_seconds)
    /\ UNCHANGED f_seconds
    /\ UNCHANGED notfmt

FmtNext == Format

SpecFormat == FmtInit /\ [][FmtNext]_vars

\* ------------------------------------------------ align_translations_to_srt
MaxCues == 2
MaxLines == 3

\* "[TRANSLATION FAILED]"
Sentinel ==
    <<"[", "T", "R", "A", "N", "S", "L", "A", "T", "I", "O", "N", " ",
      "F", "A", "I", "L", "E", "D", "]">>

\* s.startswith(p)
StartsWith(s, p) == Len(s) >= Len(p) /\ SubSeq(s, 1, Len(p)) = p

\* what one call translate_line(text, ...) can do: return a translation,
\* return the sentinel-marked text, return the text itself (service not
\* available), or raise
Translated == <<"o", "k">>

TLOutcomes(text) ==
    { [kind |-> "return", value |-> Translated],
      [kind |-> "return", value |-> Sentinel \o <<" ">> \o text],
      [kind |-> "return", value |-> text],
      [kind |-> "raise", value |-> <<>>] }

\* the history entry of one call translate_line(text, target_lang, max_retries)
\* (line 218 leaves max_retries at its default 3, line 233 passes 1)
TLCall(text, max_retries, o) == [text |-> text, max_retries |-> max_retries, out |-> o]

\* line 214, negated: the cursor still points into translated_dialogue
ServedFromList_offByOne(index, dialogue) == index + 1 < Len(dialogue)
ServedFromList(index, dialogue) == ~(index >= Len(dialogue))

\* "except Exception" catches whatever translate_line raised
Caught_never(o) == FALSE
Caught(o) == o.kind = "raise"

\* lines 217-223: the text after the fallback call
FallbackText(o, text) ==
    IF o.kind = "raise" THEN Sentinel \o <<" ">> \o text ELSE o.value

\* line 230
NeedsRetry_always(translated_text) == TRUE
NeedsRetry(translated_text) == StartsWith(translated_text, Sentinel)

\* lines 232-238: the text after the retry
RetryText(o, translated_text) ==
    IF o.kind = "return" /\ ~StartsWith(o.value, Sentinel)
    THEN o.value
    ELSE translated_text

\* line 227: td_index += 1 on the served branch only
NextCursor_always(served, index) == index + 1
NextCursor(served, index) == IF served THEN index + 1 ELSE index

\* lines 240-245
AlignedEntry_swapped(sub, translated_text) ==
    [index |-> sub.index, start |-> sub.end, end |-> sub.start,
     translated_text |-> translated_text]
AlignedEntry(sub, translated_text) ==
    [index |-> sub.index, start |-> sub.start, end |-> sub.end,
     translated_text |-> translated_text]

\* one iteration of the loop (lines 210-245) for cue sub, with o1 what the
\* fallback call does and o2 what the retry does, if they are made
AlignStep(sub, dialogue, index, o1, o2) ==
    LET served == ServedFromList(index, dialogue)
        text1  == IF served THEN dialogue[index + 1].text
                  ELSE FallbackText(o1, sub.text)
        retry  == NeedsRetry(text1)
        text2  == IF retry THEN RetryText(o2, text1) ELSE text1
    IN  [entry    |-> AlignedEntry(sub, text2),
         td_index |-> NextCursor(served, index),
         calls    |-> (IF served THEN <<>> ELSE <<TLCall(sub.text, 3, o1)>>)
                      \o (IF retry THEN <<TLCall(sub.text, 1, o2)>> ELSE <<>>),
         escaped  |-> \/ ~served /\ o1.kind = "raise" /\ ~Caught(o1)
                      \/ retry /\ o2.kind = "raise" /\ ~Caught(o2)]

AlignTexts == {<<"h", "i">>, <<"y", "o">>}
TdTexts == {<<"o", "l", "a">>, Sentinel \o <<" ", "x">>}

\* cue i as parse_srt_file returns it
AlignCue(i, text) ==
    [index |-> i,
     start |-> srt_time_format([whole |-> i, frac |-> 0]),
     end   |-> srt_time_format([whole |-> i, frac |-> 1024]),
     text  |-> text]

CueLists ==
    UNION { { [i \in 1..n |-> AlignCue(i, ts[i])] : ts \in [1..n -> AlignTexts] } :
            n \in 0..MaxCues }

TdLists ==
    UNION { { [i \in 1..n |-> [speaker |-> <<"A">>, text |-> ts[i]]] :
              ts \in [1..n -> TdTexts] } : n \in 0..MaxLines }

AlignInit ==
    /\ SegIdle /\ WrapIdle /\ FmtIdle /\ DlgIdle /\ ParseIdle /\ TranslateIdle /\ PipeIdle
    /\ a_pc = "loop"
    /\ srt_subtitles \in CueLists
    /\ translated_dialogue \in TdLists
    /\ aligned = <<>>
    /\ td_index = 0
    /\ tl_outs = <<>>
    /\ a_file = <<>>
    /\ a_error = ""

\* one iteration of "for i, sub in enumerate(srt_subtitles)"
AlignCueStep ==
    /\ a_pc = "loop"
    /\ Len(aligned) < Len(srt_subtitles)
    /\ LET sub == srt_subtitles[Len(aligned) + 1]
       IN  \E o1 \in TLOutcomes(sub.text), o2 \in TLOutcomes(sub.text) :
             LET r == AlignStep(sub, translated_dialogue, td_index, o1, o2)
             IN  IF r.escaped
                 THEN /\ a_pc' = "escaped"
                      /\ a_error' = "Exception"
                      /\ UNCHANGED <<aligned, td_index, tl_outs>>
                 ELSE /\ aligned' = Append(aligned, r.entry)
                      /\ td_index' = r.td_index
                      /\ tl_outs' = Append(tl_outs, r.calls)
                      /\ UNCHANGED <<a_pc, a_error>>
    /\ UNCHANGED <<srt_subtitles, translated_dialogue, a_file>>
    /\ UNCHANGED notalign

\* lines 247-257: the loop is over, the warnings are printed, aligned returned
AlignReturn ==
    /\ a_pc = "loop"
    /\ Len(aligned) = Len(srt_subtitles)
    /\ a_pc' = "done"
    /\ UNCHANGED <<srt_subtitles, translated_dialogue, aligned, td_index,
                   tl_outs, a_file, a_error>>
    /\ UNCHANGED notalign

\* write_srt_file: the three f.write calls per entry
RECURSIVE write_srt_file(_)
write_srt_file(subs) ==
    IF subs = <<>> THEN <<>>
    ELSE << Decimal(subs[1].index) \o <<"\n">>,
            subs[1].start \o <<" ", "-", "-", ">", " ">> \o subs[1].end \o <<"\n">>,
            subs[1].translated_text \o <<"\n", "\n">> >>
         \o write_srt_file(Tail(subs))

\* display_translation_stats: the exception it ends with, "" when it returns.
\* Line 273 divides by total_lines; line 278 reads sub['text'] of each failed
\* line.
display_translation_stats(subs) ==
    IF Len(subs) = 0 THEN "ZeroDivisionError"
    ELSE IF \E i \in 1..Len(subs) :
                /\ StartsWith(subs[i].translated_text, Sentinel)
                /\ "text" \notin DOMAIN subs[i]
         THEN "KeyError"
         ELSE ""

\* main(), line 319; Pipeline.py, line 132
WriteSrt ==
    /\ a_pc = "done"
    /\ a_pc' = "written"
    /\ a_file' = write_srt_file(aligned)
    /\ UNCHANGED <<srt_subtitles, translated_dialogue, aligned, td_index,
                   tl_outs, a_error>>
    /\ UNCHANGED notalign

\* main(), line 321
DisplayStats ==
    /\ a_pc = "written"
    /\ a_error' = display_translation_stats(aligned)
    /\ a_pc' = IF a_error' = "" THEN "shown" ELSE "crashed"
    /\ UNCHANGED <<srt_subtitles, translated_dialogue, aligned, td_index,
                   tl_outs, a_file>>
    /\ UNCHANGED notalign

AlignNext == AlignCueStep \/ AlignReturn \/ WriteSrt \/ DisplayStats

SpecAlign == AlignInit /\ [][AlignNext]_vars

\* -------------------------------------------------------- save_dialogue_txt
MaxDlgCues == 3

\* the position of the first sep in s, 0 when there is none
RECURSIVE FindFirst(_, _, _)
FindFirst(s, sep, i) ==
    IF i > Len(s) THEN 0 ELSE IF s[i] = sep THEN i ELSE FindFirst(s, sep, i + 1)

RECURSIVE FindLast(_, _, _)
FindLast(s, sep, i) ==
    IF i < 1 THEN 0 ELSE IF s[i] = sep THEN i ELSE FindLast(s, sep, i - 1)

\* s.split(sep, 1) for a one-character sep
SplitOnce_last(s, sep) ==
    LET k == FindLast(s, sep, Len(s))
    IN  IF k = 0 THEN <<s>> ELSE <<SubSeq(s, 1, k - 1), SubSeq(s, k + 1, Len(s))>>
SplitOnce(s, sep) ==
    LET k == FindFirst(s, sep, 1)
    IN  IF k = 0 THEN <<s>> ELSE <<SubSeq(s, 1, k - 1), SubSeq(s, k + 1, Len(s))>>

parse_speaker_and_text(labeled_text) ==
    LET parts == SplitOnce(labeled_text, ":")
    IN  IF Len(parts) = 2
        THEN [speaker |-> Strip(parts[1]), utterance |-> Strip(parts[2])]
        ELSE [speaker |-> Unknown, utterance |-> Strip(labeled_text)]

NonBlank(u) == Strip(u) # <<>>

\* flush_block: the writes made so far, followed by the block's write
flush_block(file_handle, utterances) ==
    IF utterances = <<>> THEN file_handle
    ELSE LET kept == SelectSeq(utterances, NonBlank)
             stripped == [k \in 1..Len(kept) |-> Strip(kept[k])]
             combined == JoinWith(SplitWs(JoinWith(stripped, <<" ">>)), <<" ">>)
         IN  Append(file_handle, combined \o <<"\n", "\n">>)

DlgTexts ==
    { <<"A", ":", " ", "x">>,
      <<"A", ":", "y">>,
      <<"B", ":", " ", "x", " ", " ", "y", " ">>,
      <<"x">>,
      <<"A", ":">>,
      <<"B", ":", " ", "x", ":", "y">> }

DlgCue(text) == [start |-> 0, end |-> 1, text |-> text]

\* the cues 'Alice: Hi', 'Alice: there', 'Bob: Hello'
AliceBobCues ==
    << DlgCue(<<"A", "l", "i", "c", "e", ":", " ", "H", "i">>),
       DlgCue(<<"A", "l", "i", "c", "e", ":", " ", "t", "h", "e", "r", "e">>),
       DlgCue(<<"B", "o", "b", ":", " ", "H", "e", "l", "l", "o">>) >>

DlgInputs ==
    {AliceBobCues} \cup
    UNION { { [i \in 1..n |-> DlgCue(ts[i])] : ts \in [1..n -> DlgTexts] } :
            n \in 0..MaxDlgCues }

DlgInit ==
    /\ SegIdle /\ WrapIdle /\ FmtIdle /\ AlignIdle /\ ParseIdle /\ TranslateIdle /\ PipeIdle
    /\ d_pc = "loop"
    /\ d_subtitles \in DlgInputs
    /\ d_i = 0
    /\ current_speaker = None
    /\ buffer = <<>>
    /\ d_file = <<>>

\* one iteration of "for sub in subtitles" (lines 223-231)
DlgStep ==
    /\ d_pc = "loop"
    /\ d_i < Len(d_subtitles)
    /\ LET p == parse_speaker_and_text(d_subtitles[d_i + 1].text)
           cs == IF current_speaker = None THEN Some(p.speaker) ELSE current_speaker
       IN  IF p.speaker # cs[1]
           THEN /\ d_file' = flush_block(d_file, buffer)
                /\ current_speaker' = Some(p.speaker)
                /\ buffer' = <<p.utterance>>
           ELSE /\ d_file' = d_file
                /\ current_speaker' = cs
                /\ buffer' = Append(buffer, p.utterance)
    /\ d_i' = d_i + 1
    /\ UNCHANGED <<d_pc, d_subtitles>>
    /\ UNCHANGED notdlg

\* line 234: the last block is flushed and the file closed
DlgFinish ==
    /\ d_pc = "loop"
    /\ d_i = Len(d_subtitles)
    /\ d_file' = flush_block(d_file, buffer)
    /\ d_pc' = "done"
    /\ UNCHANGED <<d_subtitles, d_i, current_speaker, buffer>>
    /\ UNCHANGED notdlg

DlgNext == DlgStep \/ DlgFinish

SpecDialogue == DlgInit /\ [][DlgNext]_vars

\* ------------------------------------------- parsers of "Speaker: text"
MaxParseLen == 4

\* x in s, for a character x
Contains(s, x) == \E k \in 1..Len(s) : s[k] = x

\* the body of the loop of parse_script_file (lines 33-40) for one line of
\* the file: the entries it appends to dialogue
parse_script_line(raw_line) ==
    LET line == Strip(raw_line)
    IN  IF line = <<>> THEN <<>>
        ELSE IF Contains(line, ":")
        THEN LET parts == SplitOnce(line, ":")
             IN  <<[speaker |-> Strip(parts[1]), text |-> Strip(parts[2])]>>
        ELSE <<[speaker |-> Unknown, text |-> line]>>

RECURSIVE ParseScriptLines(_)
ParseScriptLines(lines) ==
    IF lines = <<>> THEN <<>>
    ELSE parse_script_line(lines[1]) \o ParseScriptLines(Tail(lines))

\* parse_script_file for a file with the given content
parse_script_file(content) == ParseScriptLines(SplitOn(content, "\n"))

\* the body of the loop of parse_translated_dialogue (lines 94-101)
parse_translated_line_last(raw_line) ==
    LET line == Strip(raw_line)
    IN  IF line = <<>> THEN <<>>
        ELSE IF Contains(line, ":")
        THEN LET parts == SplitOnce_last(line, ":")
             IN  <<[speaker |-> Strip(parts[1]), text |-> Strip(parts[2])]>>
        ELSE <<[speaker |-> Unknown, text |-> line]>>
parse_translated_line(raw_line) ==
    LET line == Strip(raw_line)
    IN  IF line = <<>> THEN <<>>
        ELSE IF Contains(line, ":")
        THEN LET parts == SplitOnce(line, ":")
             IN  <<[speaker |-> Strip(parts[1]), text |-> Strip(parts[2])]>>
        ELSE <<[speaker |-> Unknown, text |-> line]>>

RECURSIVE ParseTranslatedLines(_)
ParseTranslatedLines(lines) ==
    IF lines = <<>> THEN <<>>
    ELSE parse_translated_line(lines[1]) \o ParseTranslatedLines(Tail(lines))

parse_translated_dialogue(translated_text) ==
    ParseTranslatedLines(SplitOn(translated_text, "\n"))

ParseAlphabet == {"A", ":", " ", "x"}

RECURSIVE StringsUpTo(_, _)
\* the strings over alphabet of length at most n
StringsUpTo(alphabet, n) ==
    IF n = 0 THEN {<<>>}
    ELSE LET shorter == StringsUpTo(alphabet, n - 1)
         IN  shorter \cup {Append(s, c) : s \in shorter, c \in alphabet}

ParseLines == StringsUpTo(ParseAlphabet, MaxParseLen)

ParseInit ==
    /\ SegIdle /\ WrapIdle /\ FmtIdle /\ AlignIdle /\ DlgIdle /\ TranslateIdle /\ PipeIdle
    /\ p_pc = "run"
    /\ p_line \in ParseLines
    /\ p_fmt = None
    /\ p_script = None
    /\ p_trans = None

\* save_dialogue_txt parses the text of a cue
ParseFmt ==
    /\ p_pc = "run"
    /\ p_fmt = None
    /\ p_fmt' = Some(parse_speaker_and_text(p_line))
    /\ UNCHANGED <<p_pc, p_line, p_script, p_trans>>
    /\ UNCHANGED notparse

\* parse_script_file reads a file holding the line
ParseScript ==
    /\ p_pc = "run"
    /\ p_script = None
    /\ p_script' = Some(parse_script_file(p_line \o <<"\n">>))
    /\ UNCHANGED <<p_pc, p_line, p_fmt, p_trans>>
    /\ UNCHANGED notparse

\* parse_translated_dialogue is given the line
ParseTrans ==
    /\ p_pc = "run"
    /\ p_trans = None
    /\ p_trans' = Some(parse_translated_dialogue(p_line))
    /\ UNCHANGED <<p_pc, p_line, p_fmt, p_script>>
    /\ UNCHANGED notparse

ParseNext == ParseFmt \/ ParseScript \/ ParseTrans

SpecParse == ParseInit /\ [][ParseNext]_vars

\* ----------------------------------------- translate_line, translate_scene
\* max_retries=3, the default of translate_line
DefaultMaxRetries == 3

\* the module globals bound by lines 1-26, for each way the try block of
\* lines 10-26 can go.  GOOGLE_AI_AVAILABLE and client are bound nowhere.
ImportOutcomes ==
    { \* "from google import genai" raises ImportError
      [names |-> {"GEMINI_API_KEY", "GEMINI_AVAILABLE"},
       GEMINI_AVAILABLE |-> FALSE],
      \* GOOGLE_API_KEY is not set, or genai.configure or
      \* genai.GenerativeModel raises: the name e of "except Exception as e"
      \* is unbound again when the handler ends
      [names |-> {"GEMINI_API_KEY", "GEMINI_AVAILABLE", "genai"},
       GEMINI_AVAILABLE |-> FALSE],
      \* the key is set and the model is configured
      [names |-> {"GEMINI_API_KEY", "GEMINI_AVAILABLE", "genai", "model"},
       GEMINI_AVAILABLE |-> TRUE] }

\* the value of the global GOOGLE_AI_AVAILABLE, read only when it is bound
GoogleAiAvailable(env) == env.GEMINI_AVAILABLE /\ "GOOGLE_AI_AVAILABLE" \in env.names

\* the characters of [\u3040-\u309F\u30A0-\u30FF\u4E00-\u9FAF]
Japanese ==
    {CodePoint(n) : n \in (12352..12447) \cup (12448..12543) \cup (19968..40879)}

\* the position of the first character from position p on that is not
\* whitespace, 0 when there is none
NonSpaceFrom(s, p) ==
    LET rest == {q \in p..Len(s) : ~IsSpace(s[q])}
    IN  IF rest = {} THEN 0 ELSE CHOOSE q \in rest : \A r \in rest : q <= r

RECURSIVE JoinJapanese(_)
\* re.sub(r'(J)\s+(J)', r'\1\2', s) of line 115: the matches are taken from
\* left to right and the search resumes after the second character
JoinJapanese(s) ==
    IF s = <<>> THEN <<>>
    ELSE LET q == NonSpaceFrom(s, 2)
         IN  IF s[1] \in Japanese /\ q > 2 /\ s[q] \in Japanese
             THEN <<s[1], s[q]>> \o JoinJapanese(SubSeq(s, q + 1, Len(s)))
             ELSE <<s[1]>> \o JoinJapanese(Tail(s))

RECURSIVE CollapseSpace(_)
\* re.sub(r'\s+', ' ', s) of line 117
CollapseSpace(s) ==
    IF s = <<>> THEN <<>>
    ELSE IF IsSpace(s[1]) THEN <<" ">> \o CollapseSpace(LStrip(s))
    ELSE <<s[1]>> \o CollapseSpace(Tail(s))

\* clean_japanese_text: a text without Japanese characters is returned as is
clean_japanese_text(text) ==
    IF \E k \in 1..Len(text) : text[k] \in Japanese
    THEN Strip(CollapseSpace(JoinJapanese(text)))
    ELSE text

RECURSIVE Attempts(_, _, _, _, _)
\* "for attempt in range(max_retries)" of translate_line, lines 137-166;
\* requests counts the calls of client.models.generate_content
Attempts(env, cleaned_text, max_retries, responses, attempt) ==
    LET requests == IF "client" \in env.names THEN attempt ELSE 0
        failed == Returns(Sentinel \o <<" ">> \o cleaned_text, requests)
    IN  IF attempt >= max_retries THEN failed
        ELSE LET r == IF "client" \in env.names THEN responses[attempt + 1]
                      ELSE [kind |-> "raise", value |-> <<>>]
                 made == IF "client" \in env.names THEN attempt + 1 ELSE 0
                 translated == Strip(r.value)
             IN  IF r.kind = "raise"
                 THEN IF attempt < max_retries - 1
                      THEN Attempts(env, cleaned_text, max_retries, responses, attempt + 1)
                      ELSE Returns(Sentinel \o <<" ">> \o cleaned_text, made)
                 ELSE IF translated # <<>> /\ translated # cleaned_text
                      THEN Returns(translated, made)
                      ELSE Attempts(env, cleaned_text, max_retries, responses, attempt + 1)

translate_line(env, text, max_retries, responses) ==
    IF "GOOGLE_AI_AVAILABLE" \notin env.names
    THEN Raises("NameError", 0)
    ELSE IF ~GoogleAiAvailable(env) THEN Returns(text, 0)
    ELSE Attempts(env, clean_japanese_text(text), max_retries, responses, 0)

\* "\n".join(f"{d['speaker']}: {d['text']}" for d in dialogue)
DialogueText(dialogue) ==
    JoinWith([k \in 1..Len(dialogue) |->
                dialogue[k].speaker \o <<":", " ">> \o dialogue[k].text], <<"\n">>)

translate_scene(env, dialogue, responses) ==
    IF "GOOGLE_AI_AVAILABLE" \notin env.names
    THEN Raises("NameError", 0)
    ELSE IF ~GoogleAiAvailable(env) THEN Returns(DialogueText(dialogue), 0)
    ELSE IF "client" \notin env.names \/ responses[1].kind = "raise"
    THEN Returns(DialogueText(dialogue), IF "client" \in env.names THEN 1 ELSE 0)
    ELSE Returns(Strip(responses[1].value), 1)

\* "hi", "yo " and the Japanese text "\u3053 \u3093", which is cleaned
TranslateTexts == {<<"h", "i">>, <<"y", "o", " ">>, <<"U+3053", " ", "U+3093">>}

\* an answer of the service to translate_line(text): a translation, an
\* empty or blank text, the text itself, or an exception
ServiceAnswers ==
    { [kind |-> "text", value |-> Translated],
      [kind |-> "text", value |-> <<" ">>],
      [kind |-> "text", value |-> <<"h", "i">>],
      [kind |-> "raise", value |-> <<>>] }

TranslateDialogues ==
    UNION { [1..n -> {[speaker |-> <<"A">>, text |-> <<"h", "i">>],
                      [speaker |-> Unknown, text |-> <<"y", "o">>]}] : n \in 0..2 }

TranslateInit ==
    /\ SegIdle /\ WrapIdle /\ FmtIdle /\ AlignIdle /\ DlgIdle /\ ParseIdle /\ PipeIdle
    /\ t_pc = "import"
    /\ t_env = [names |-> {}, GEMINI_AVAILABLE |-> FALSE]
    /\ t_fn \in {"translate_line", "translate_scene"}
    /\ t_responses \in [1..DefaultMaxRetries -> ServiceAnswers]
    /\ IF t_fn = "translate_line"
       THEN /\ t_text \in TranslateTexts
            /\ t_max_retries \in {1, DefaultMaxRetries}
            /\ t_dialogue = <<>>
       ELSE /\ t_text = <<>>
            /\ t_max_retries = 0
            /\ t_dialogue \in TranslateDialogues
    /\ t_requests = 0
    /\ t_result = <<>>
    /\ t_error = ""

\* the module is imported: lines 1-26 run
ImportTranslation ==
    /\ t_pc = "import"
    /\ t_pc' = "call"
    /\ t_env' \in ImportOutcomes
    /\ UNCHANGED <<t_fn, t_text, t_max_retries, t_dialogue, t_responses,
                   t_requests, t_result, t_error>>
    /\ UNCHANGED nottranslate

TranslateLine ==
    /\ t_pc = "call"
    /\ t_fn = "translate_line"
    /\ LET r == translate_line(t_env, t_text, t_max_retries, t_responses)
       IN  /\ t_pc' = IF r.kind = "raise" THEN "raised" ELSE "returned"
           /\ t_result' = r.value
           /\ t_error' = r.error
           /\ t_requests' = r.requests
    /\ UNCHANGED <<t_env, t_fn, t_text, t_max_retries, t_dialogue, t_responses>>
    /\ UNCHANGED nottranslate

TranslateScene ==
    /\ t_pc = "call"
    /\ t_fn = "translate_scene"
    /\ LET r == translate_scene(t_env, t_dialogue, t_responses)
       IN  /\ t_pc' = IF r.kind = "raise" THEN "raised" ELSE "returned"
           /\ t_result' = r.value
           /\ t_error' = r.error
           /\ t_requests' = r.requests
    /\ UNCHANGED <<t_env, t_fn, t_text, t_max_retries, t_dialogue, t_responses>>
    /\ UNCHANGED nottranslate

TranslateNext == ImportTranslation \/ TranslateLine \/ TranslateScene

SpecTranslate == TranslateInit /\ [][TranslateNext]_vars


\* ------------------------------------------------ Pipeline.py: /process
PAUSE_THRESHOLD == 1
MAX_SUBTITLE_DURATION == 8

\* the float t.0 as srt_time_format takes it
Seconds(t) == [whole |-> t, frac |-> 0]

\* save_srt: the content of the file it writes, from cue i on
RECURSIVE SaveSrtFrom(_, _)
SaveSrtFrom(subs, i) ==
    IF i > Len(subs) THEN <<>>
    ELSE LET sub == subs[i]
             lines == smart_wrap(sub.text, DefaultMaxChars)
         IN  Decimal(i) \o <<"\n">>
             \o srt_time_format(Seconds(sub.start)) \o <<" ", "-", "-", ">", " ">>
             \o srt_time_format(Seconds(sub.end)) \o <<"\n">>
             \o (IF Len(lines) = 1 THEN lines[1] \o <<"\n", "\n">>
                 ELSE lines[1] \o <<"\n">> \o lines[2] \o <<"\n", "\n">>)
             \o SaveSrtFrom(subs, i + 1)

save_srt(subs) == SaveSrtFrom(subs, 1)

\* the end of the match of \n\s*\n that starts at position i, 0 when there
\* is none: \s* is greedy, so the match ends at the last newline of the run
\* of whitespace that follows position i
BlankEnd(s, i) ==
    IF s[i] # "\n" THEN 0
    ELSE LET ends == {q \in (i + 1)..Len(s) :
                        s[q] = "\n" /\ \A k \in (i + 1)..(q - 1) : IsSpace(s[k])}
         IN  IF ends = {} THEN 0 ELSE CHOOSE q \in ends : \A r \in ends : r <= q

RECURSIVE BlankSplit(_)
\* re.split(r'\n\s*\n', s): the text before the leftmost match, then the
\* split of what follows the match
BlankSplit(s) ==
    LET starts == {i \in 1..Len(s) : BlankEnd(s, i) > 0}
    IN  IF starts = {} THEN <<s>>
        ELSE LET i == CHOOSE m \in starts : \A k \in starts : m <= k
             IN  <<SubSeq(s, 1, i - 1)>>
                 \o BlankSplit(SubSeq(s, BlankEnd(s, i) + 1, Len(s)))

RECURSIVE SplitStr(_, _)
\* str.split(sep) for a separator of any length
SplitStr(s, sep) ==
    LET starts == {i \in 1..(Len(s) - Len(sep) + 1) :
                        SubSeq(s, i, i + Len(sep) - 1) = sep}
    IN  IF starts = {} THEN <<s>>
        ELSE LET i == CHOOSE m \in starts : \A k \in starts : m <= k
             IN  <<SubSeq(s, 1, i - 1)>>
                 \o SplitStr(SubSeq(s, i + Len(sep), Len(s)), sep)

\* the characters with the decimal value d: the ASCII digit and the digits
\* of the other scripts
DecimalDigits ==
    [d \in 0..9 |-> {DigitChars[d + 1]} \cup {CodePoint(z + d) : z \in DigitZeros}]

IsDecimal(c) == \E d \in 0..9 : c \in DecimalDigits[d]

\* digits, with single underscores between them
IsDigitGroups(s) ==
    /\ s # <<>>
    /\ \A k \in 1..Len(s) :
          \/ IsDecimal(s[k])
          \/ s[k] = "_" /\ 1 < k /\ k < Len(s)
                        /\ IsDecimal(s[k - 1]) /\ IsDecimal(s[k + 1])

\* the text without a leading sign
Unsigned(s) == IF s # <<>> /\ s[1] \in {"+", "-"} THEN Tail(s) ELSE s

\* int(s) returns: s is, between optional whitespace, an optional sign and
\* decimal digits that single underscores may separate
IsIntLiteral(s) == IsDigitGroups(Unsigned(Strip(s)))

RECURSIVE DigitsValue(_)
DigitsValue(s) ==
    IF s = <<>> THEN 0
    ELSE IF s[Len(s)] = "_" THEN DigitsValue(SubSeq(s, 1, Len(s) - 1))
    ELSE 10 * DigitsValue(SubSeq(s, 1, Len(s) - 1))
         + (CHOOSE d \in 0..9 : s[Len(s)] \in DecimalDigits[d])

\* int(s) for a string int() accepts
ParseInt(s) ==
    LET t == Strip(s)
    IN  IF t[1] = "-" THEN 0 - DigitsValue(Tail(t)) ELSE DigitsValue(Unsigned(t))

\* the body of "for block in blocks" (lines 50-56): the cues the block adds,
\* or the ValueError of the unpacking of line 55 or of int() of line 56
parse_srt_block(block) ==
    LET lines == SplitOn(block, "\n")
    IN  IF ~(Len(lines) >= 3) THEN Returns(<<>>, 0)
        ELSE LET idx == Strip(lines[1])
                 times == Strip(lines[2])
                 text == Strip(JoinWith(SubSeq(lines, 3, Len(lines)), <<" ">>))
                 parts == SplitStr(times, <<" ", "-", "-", ">", " ">>)
             IN  IF Len(parts) # 2 \/ ~IsIntLiteral(idx) THEN Raises("ValueError", 0)
                 ELSE Returns(<<[index |-> ParseInt(idx), start |-> parts[1],
                                 end |-> parts[2], text |-> text]>>, 0)

RECURSIVE ParseSrtBlocks(_)
ParseSrtBlocks(blocks) ==
    IF blocks = <<>> THEN Returns(<<>>, 0)
    ELSE LET first == parse_srt_block(blocks[1])
             rest == ParseSrtBlocks(Tail(blocks))
         IN  IF first.kind = "raise" THEN first
             ELSE IF rest.kind = "raise" THEN rest
             ELSE Returns(first.value \o rest.value, 0)

\* parse_srt_file for a file with the given content
parse_srt_file(content) == ParseSrtBlocks(BlankSplit(Strip(content)))

RECURSIVE Concat(_)
\* the content of a file from the strings written to it
Concat(writes) == IF writes = <<>> THEN <<>> ELSE writes[1] \o Concat(Tail(writes))

\* a translation of one line by the service
Tr(text) == <<"~">> \o text

\* the answer of a service that translates the prompt's dialogue line by
\* line: one "speaker: translation" line per submitted line, in order
LineByLine(dialogue) ==
    JoinWith([k \in 1..Len(dialogue) |->
                dialogue[k].speaker \o <<":", " ">> \o Tr(dialogue[k].text)],
             <<"\n">>)

\* the gaps between the end of a word and the start of the next
PipeGaps == {0, 2}

\* the words of result_with_speakers["word_segments"]: one second each; a
\* word that could not be aligned comes without "start"
PipeInputs(prev) ==
    {[word |-> <<"a">>, start |-> s, end |-> s + 1, speaker |-> sp, keys |-> ks] :
        s \in (IF prev = <<>> THEN {0}
               ELSE {prev[Len(prev)].end + g : g \in PipeGaps}),
        sp \in Speakers,
        ks \in {AllKeys, AllKeys \ {"start"}}}

\* what lines 73-110 (upload, audio extraction, transcription, alignment,
\* diarization) end with: the message of the exception that reaches line
\* 145 ("" when they complete) and the files then in tmpdir.  {e} stands
\* for the text of an exception raised outside the repository.
StageOutcomes ==
    { [error |-> "", files |-> {"video", "audio.wav"}],
      \* lines 73-75: open() raises, copyfileobj raises
      [error |-> "{e}", files |-> {}],
      \* line 75: copyfileobj raises; line 79: VideoFileClip raises;
      \* line 81: write_audiofile raises before it creates the file
      [error |-> "{e}", files |-> {"video"}],
      \* line 83
      [error |-> "No audio track found in video", files |-> {"video"}],
      \* line 81: write_audiofile raises after it created the file;
      \* lines 93-95: load_audio, transcribe or result["language"] raises
      [error |-> "{e}", files |-> {"video", "audio.wav"}],
      \* lines 88-91
      [error |-> "Failed to load WhisperX model: {e}",
       files |-> {"video", "audio.wav"}],
      \* lines 97-103
      [error |-> "Failed to align audio: {e}", files |-> {"video", "audio.wav"}],
      \* lines 105-110
      [error |-> "Failed to perform speaker diarization: {e}",
       files |-> {"video", "audio.wav"}] }

PipeInit ==
    /\ SegIdle /\ WrapIdle /\ FmtIdle /\ AlignIdle /\ DlgIdle /\ ParseIdle /\ TranslateIdle
    /\ pl_pc = "request"
    /\ pl_same_language \in BOOLEAN
    /\ pl_tmpdir = None
    /\ pl_srt = <<>>
    /\ pl_dialogue = <<>>
    /\ pl_translated = None
    /\ pl_error = ""
    /\ pl_response = NoResponse
    /\ pl_sent = ""

\* lines 70-110: mkdtemp, then the stages up to the diarized words
PipeExtract ==
    /\ pl_pc = "request"
    /\ \E o \in StageOutcomes :
         /\ pl_tmpdir' = Some(o.files)
         /\ IF o.error = ""
            THEN /\ pl_pc' = "group"
                 /\ pc' = "loop"
                 /\ pause_threshold' = PAUSE_THRESHOLD
                 /\ max_duration' = MAX_SUBTITLE_DURATION
                 /\ UNCHANGED pl_error
            ELSE /\ pl_pc' = "except"
                 /\ pl_error' = o.error
                 /\ UNCHANGED <<pc, pause_threshold, max_duration>>
    /\ UNCHANGED <<kind, raw, words, subtitles, current_words, start_time,
                   last_end_time, speaker, cue_words, carried, ncarry, result>>
    /\ UNCHANGED <<pl_same_language, pl_srt, pl_dialogue, pl_translated,
                   pl_response, pl_sent>>
    /\ UNCHANGED <<wrapvars, fmtvars, alignvars, dlgvars, parsevars, translatevars>>

\* lines 115-119: one iteration of the loop of group_into_sentences
PipeWord ==
    /\ pl_pc = "group"
    /\ pc = "loop"
    /\ Len(words) < MaxWords
    /\ \E w \in PipeInputs(raw) :
          /\ raw' = Append(raw, w)
          /\ LoopBody(w)
    /\ UNCHANGED <<kind, pause_threshold, max_duration>>
    /\ UNCHANGED notseg

\* lines 115-119: w["start"] raised KeyError in group_into_sentences
PipeGroupRaises ==
    /\ pl_pc = "group"
    /\ pc = "error"
    /\ pl_pc' = "except"
    /\ pl_error' = "'start'"
    /\ UNCHANGED <<pl_same_language, pl_tmpdir, pl_srt, pl_dialogue, pl_translated,
                   pl_response, pl_sent>>
    /\ UNCHANGED <<segvars, wrapvars, fmtvars, alignvars, dlgvars, parsevars, translatevars>>

\* line 120, and the call of line 121
PipeSave ==
    /\ pl_pc = "group"
    /\ pc = "done"
    /\ pl_pc' = "dialogue"
    /\ pl_srt' = save_srt(result[1])
    /\ pl_tmpdir' = Some(pl_tmpdir[1] \cup {"subtitles.srt", "dialogue.txt"})
    /\ d_pc' = "loop"
    /\ d_subtitles' = result[1]
    /\ UNCHANGED <<d_i, current_speaker, buffer, d_file>>
    /\ UNCHANGED <<pl_same_language, pl_dialogue, pl_translated, pl_error,
                   pl_response, pl_sent>>
    /\ UNCHANGED <<segvars, wrapvars, fmtvars, alignvars, parsevars, translatevars>>

\* lines 124-134: save_dialogue_txt has returned; when the languages differ
\* the two files are parsed and translate_scene is called.  It raises
\* NameError under every import of translation.py, so lines 129-132 are
\* never reached and the handler goes to line 134.
PipeTranslate ==
    /\ pl_pc = "dialogue"
    /\ d_pc = "done"
    /\ IF pl_same_language
       THEN /\ pl_pc' = "overlay"
            /\ UNCHANGED <<pl_dialogue, pl_translated, pl_error, alignvars>>
       ELSE LET dialogue == parse_script_file(Concat(d_file))
                subs == parse_srt_file(pl_srt)
            IN  /\ pl_dialogue' = dialogue
                /\ IF subs.kind = "raise"
                   THEN /\ pl_pc' = "except"
                        /\ pl_error' = "Translation failed: {e}"
                        /\ UNCHANGED <<pl_translated, alignvars>>
                   ELSE \E env \in ImportOutcomes :
                          LET r == translate_scene(env, dialogue,
                                       <<[kind |-> "text", value |-> LineByLine(dialogue)]>>)
                          IN  /\ r.kind = "raise"
                              /\ pl_translated' = Some(r)
                              /\ pl_pc' = "except"
                              /\ pl_error' = "Translation failed: name 'GOOGLE_AI_AVAILABLE' is not defined"
                              /\ UNCHANGED alignvars
    /\ UNCHANGED <<pl_same_language, pl_tmpdir, pl_srt, pl_response, pl_sent>>
    /\ UNCHANGED <<segvars, wrapvars, fmtvars, dlgvars, parsevars, translatevars>>

\* what burn_subtitles_from_paths ends with
OverlayOutcomes == {"", "Subtitle overlay failed: {e}"}

\* lines 137-143: the overlay, and the return of the FileResponse
PipeOverlay ==
    /\ pl_pc = "overlay"
    /\ \E o \in OverlayOutcomes :
         IF o = ""
         THEN /\ pl_pc' = "finally"
              /\ pl_tmpdir' = Some(pl_tmpdir[1] \cup {"final_output.mp4"})
              /\ pl_response' = [kind |-> "FileResponse", status |-> 200,
                                 content |-> "final_output.mp4"]
              /\ UNCHANGED pl_error
         ELSE /\ pl_pc' = "except"
              /\ pl_error' = o
              /\ UNCHANGED <<pl_tmpdir, pl_response>>
    /\ UNCHANGED <<pl_same_language, pl_srt, pl_dialogue, pl_translated, pl_sent>>
    /\ UNCHANGED <<segvars, wrapvars, fmtvars, alignvars, dlgvars, parsevars, translatevars>>

\* lines 145-146
PipeExcept ==
    /\ pl_pc = "except"
    /\ pl_pc' = "finally"
    /\ pl_response' = [kind |-> "JSONResponse", status |-> 500, content |-> pl_error]
    /\ UNCHANGED <<pl_same_language, pl_tmpdir, pl_srt, pl_dialogue, pl_translated,
                   pl_error, pl_sent>>
    /\ UNCHANGED <<segvars, wrapvars, fmtvars, alignvars, dlgvars, parsevars, translatevars>>

\* lines 147-148: the finally clause runs before the handler returns
PipeFinally ==
    /\ pl_pc = "finally"
    /\ pl_pc' = "returned"
    /\ pl_tmpdir' = None
    /\ UNCHANGED <<pl_same_language, pl_srt, pl_dialogue, pl_translated, pl_error,
                   pl_response, pl_sent>>
    /\ UNCHANGED <<segvars, wrapvars, fmtvars, alignvars, dlgvars, parsevars, translatevars>>

\* the server sends the returned response: a FileResponse opens its path
\* at that moment and fails with RuntimeError when the file does not exist
Deliver ==
    /\ pl_pc = "returned"
    /\ pl_pc' = "delivered"
    /\ pl_sent' = IF pl_response.kind = "JSONResponse" THEN "json"
                  ELSE IF pl_tmpdir # None /\ pl_response.content \in pl_tmpdir[1]
                  THEN "video"
                  ELSE "RuntimeError"
    /\ UNCHANGED <<pl_same_language, pl_tmpdir, pl_srt, pl_dialogue, pl_translated,
                   pl_error, pl_response>>
    /\ UNCHANGED <<segvars, wrapvars, fmtvars, alignvars, dlgvars, parsevars, translatevars>>

PipeNext ==
    \/ PipeExtract \/ PipeWord \/ Return \/ PipeGroupRaises \/ PipeSave
    \/ DlgStep \/ DlgFinish \/ PipeTranslate
    \/ PipeOverlay \/ PipeExcept \/ PipeFinally \/ Deliver

SpecPipeline == PipeInit /\ [][PipeNext]_vars

\* ===================================================== claims: segmenter
\* the part of a cue text before the first colon (the speaker prefix)
CueSpeaker(text) == SplitOn(text, ":")[1]

\* the part of a cue text after the "speaker: " prefix
CueBody(text) == SubSeq(text, Len(CueSpeaker(text)) + 3, Len(text))

RECURSIVE Flatten(_)
Flatten(ss) == IF ss = <<>> THEN <<>> ELSE ss[1] \o Flatten(Tail(ss))

\* the words of all cues, in cue order
CueTexts(subs) ==
    Flatten([j \in 1..Len(subs) |-> SplitOn(CueBody(subs[j].text), " ")])

WordTexts(ws) == [k \in 1..Len(ws) |-> ws[k].word]

\* the speaker label a word carries ("Unknown" when it has none)
LabelOf(w) == GetSpeakerOrUnknown(w)

\* C1: when group_into_sentences has returned, the words of the cues, read in
\* cue order, are exactly the input words: none lost, none duplicated.
C1_NoWordLostOrDuplicated ==
    pc = "done" => CueTexts(result[1]) = WordTexts(words)

\* the incoming word of a step of the loop
Incoming == words'[Len(words')]

\* the step closes a cue because elapsed >= max_duration and the buffer holds a
\* word that ends in punctuation
ForcedSplitStep ==
    /\ pc = "loop" /\ pc' = "loop"
    /\ Len(words') = Len(words) + 1
    /\ current_words # <<>>
    /\ OrElse(last_end_time, Incoming.start) - start_time[1] >= max_duration
    /\ \E i \in 1..Len(current_words) :
          EndsWithAny(words[current_words[i]].word, SplitPunct)

\* position of the most recent buffered word that ends in punctuation
SplitPos ==
    CHOOSE i \in 1..Len(current_words) :
        /\ EndsWithAny(words[current_words[i]].word, SplitPunct)
        /\ \A j \in (i + 1)..Len(current_words) :
              ~EndsWithAny(words[current_words[j]].word, SplitPunct)

\* C2: at a max-duration boundary with the last punctuation at buffer position
\* i, the emitted cue holds exactly the buffered words up to i, and the words
\* after i open the next cue, followed by the incoming word.
C2_SplitAtPunctuation ==
    [][ForcedSplitStep =>
          /\ Len(subtitles') = Len(subtitles) + 1
          /\ SplitOn(CueBody(subtitles'[Len(subtitles')].text), " ")
                = [k \in 1..SplitPos |-> words[current_words[k]].word]
          /\ current_words'
                = Append(SubSeq(current_words, SplitPos + 1, Len(current_words)),
                         Len(words'))]_vars

\* C3: every word placed in a cue carries the speaker label of the cue's
\* "speaker: " prefix.
C3_SpeakerUniform ==
    \A j \in 1..Len(subtitles) :
        \A p \in 1..Len(cue_words[j]) :
            LabelOf(words[cue_words[j][p]]) = CueSpeaker(subtitles[j].text)

\* C4: two consecutive words of one cue are never separated by a silence
\* longer than pause_threshold.
C4_NoLongPauseInsideCue ==
    \A j \in 1..Len(subtitles) :
        \A p \in 1..(Len(cue_words[j]) - 1) :
            words[cue_words[j][p + 1]].start - words[cue_words[j][p]].end
                <= pause_threshold

\* a run of words without speaker, close together and shorter than max_duration
UnlabelledRun(ws) ==
    /\ ws # <<>>
    /\ \A k \in 1..Len(ws) : ~HasKey(ws[k], "speaker")
    /\ \A k \in 1..(Len(ws) - 1) : ws[k + 1].start - ws[k].end <= pause_threshold
    /\ \A k \in 1..Len(ws) : ws[k].end - ws[1].start < max_duration

\* C5: a run of words that have no speaker becomes one cue of "Unknown".
C5_MissingSpeakerIsUnknown ==
    (pc = "done" /\ UnlabelledRun(words)) =>
        /\ Len(result[1]) = 1
        /\ SubSeq(result[1][1].text, 1, Len(Unknown) + 2) = Unknown \o <<":", " ">>

\* the input is ordered by start and no word ends before it starts
WellTimed(ws) ==
    /\ \A k \in 1..(Len(ws) - 1) : ws[k].start <= ws[k + 1].start
    /\ \A k \in 1..Len(ws) : ws[k].end >= ws[k].start

\* C6 as stated: on well-timed input the cue starts are strictly increasing and
\* every cue has end >= start.
C6_StrictlyOrdered ==
    (pc = "done" /\ WellTimed(words)) =>
        /\ \A j \in 1..(Len(result[1]) - 1) :
              result[1][j].start < result[1][j + 1].start
        /\ \A j \in 1..Len(result[1]) : result[1][j].end >= result[1][j].start

\* C6 amended: on well-timed input the cue starts never decrease (two cues may
\* start at the same time) and every cue has end >= start.
C6_Ordered ==
    (pc = "done" /\ WellTimed(words)) =>
        /\ \A j \in 1..(Len(result[1]) - 1) :
              result[1][j].start <= result[1][j + 1].start
        /\ \A j \in 1..Len(result[1]) : result[1][j].end >= result[1][j].start

\* two labelled words that start together were returned as two cues with the
\* same start, no word was re-seeded, and no word ends at 0
C6_Witness ==
    /\ pc = "done" /\ WellTimed(words)
    /\ Len(words) = 2
    /\ \A k \in 1..Len(words) : HasKey(words[k], "speaker") /\ words[k].end > 0
    /\ Len(result[1]) = 2
    /\ result[1][1].start = result[1][2].start
    /\ result[1][1].end > result[1][1].start

\* C7: a cue starts when its first word starts and ends when its last word ends.
C7_CueTimesFromWords ==
    \A j \in 1..Len(subtitles) :
        /\ subtitles[j].start = words[cue_words[j][1]].start
        /\ subtitles[j].end = words[cue_words[j][Len(cue_words[j])]].end

\* C8: once the response holds a word without start or end, processing has
\* failed: no cue list is ever returned for it.
C8_FailFast ==
    (\E k \in 1..Len(raw) : ~HasKey(raw[k], "start") \/ ~HasKey(raw[k], "end"))
        => (pc = "error" /\ result = None)

\* ======================================================= claims: wrapper
\* C9: whatever stage produced it, the returned list has one or two lines and
\* no line is longer than max_chars_per_line.
C9_AtMostTwoShortLines ==
    wpc \in {"wrapped", "rewrapped"} =>
        /\ Len(wlines) \in {1, 2}
        /\ \A k \in 1..Len(wlines) : Len(wlines[k]) <= wmax

\* a text longer than two full lines was cut by the hard chop into two lines
\* of exactly max_chars_per_line characters
C9_Witness ==
    /\ wpc = "wrapped" /\ wstage = "truncate"
    /\ Len(Normalize(wtext)) > 2 * wmax
    /\ Len(wlines) = 2 /\ Len(wlines[1]) = wmax /\ Len(wlines[2]) = wmax

\* C10: wrapping the first returned line again gives back that line alone.
C10_IdempotentOnFirstLine ==
    wpc = "rewrapped" => wagain = <<wlines[1]>>

\* C11: one line is returned exactly when the normalized text fits the limit,
\* and it is the normalized text; a longer normalized text gives two lines;
\* "Alice Johnson went to the market" under 42 comes back as the only line.
C11_SingleLineIffFits ==
    wpc \in {"wrapped", "rewrapped"} =>
        /\ (Len(wlines) = 1) <=> (Len(JoinWith(SplitWs(wtext), <<" ">>)) <= wmax)
        /\ Len(wlines) = 1 => wlines = <<JoinWith(SplitWs(wtext), <<" ">>)>>
        /\ Len(wlines) # 1 => Len(wlines) = 2
        /\ (wtext = AliceText /\ wmax = DefaultMaxChars) => wlines = <<AliceText>>

\* a text with doubled and leading blanks whose normalized form has exactly
\* max_chars_per_line characters came back as one normalized line
C11_Witness ==
    /\ wpc = "wrapped"
    /\ Len(wlines) = 1
    /\ Len(wlines[1]) = wmax
    /\ Len(wtext) > wmax

\* the text is two words separated by one space
TwoWords(text) ==
    /\ Len(SplitOn(text, " ")) = 2
    /\ SplitOn(text, " ")[1] # <<>>
    /\ SplitOn(text, " ")[2] # <<>>

\* the heuristic rules reject the boundary between the two words
OnlyBoundaryRejected(text) ==
    LET l == SplitOn(text, " ")[1]
        r == SplitOn(text, " ")[2]
        small(w) == Len(w) <= 3 /\ (\A k \in 1..Len(w) : w[k] \in Lower)
    IN \/ l[1] \in Upper /\ r[1] \in Upper
       \/ small(l) \/ small(r)

\* C12: a 43-character text of two words whose boundary is rejected is split
\* under the limit 42 by the character fallback into the two words.
C12_TwoWordFallback ==
    (/\ wpc \in {"wrapped", "rewrapped"}
     /\ wmax = 42 /\ Len(wtext) = 43
     /\ TwoWords(wtext) /\ OnlyBoundaryRejected(wtext)) =>
        /\ wstage = "fallback"
        /\ wlines = SplitOn(wtext, " ")
        /\ \A k \in 1..2 : Len(wlines[k]) <= 42

\* two capitalized words, the second the shorter, were split by the fallback
C12_Witness ==
    /\ wpc = "wrapped" /\ wmax = 42 /\ Len(wtext) = 43
    /\ TwoWords(wtext)
    /\ wtext[1] \in Upper
    /\ SplitOn(wtext, " ")[2][1] \in Upper
    /\ Len(SplitOn(wtext, " ")[1]) > 30
    /\ wstage = "fallback"

\* ===================================================== claims: formatter
\* round(num / den), ties to the even neighbour as Python's round does
RoundHalfEven(num, den) ==
    LET q == num \div den
        r == num % den
    IN  IF 2 * r < den THEN q
        ELSE IF 2 * r > den THEN q + 1
        ELSE IF q % 2 = 0 THEN q ELSE q + 1

\* C19: srt_time_format renders a non-negative time as HH:MM:SS,mmm: hours,
\* minutes and seconds decompose floor(seconds), minutes and seconds within
\* 00..59, hours padded to at least two digits, and the millisecond field is
\* round((seconds mod 1) * 1000) padded to three digits; 3661.5 gives
\* 01:01:01,500.
C19_RoundedMillis ==
    f_pc = "done" =>
        LET w == f_seconds.whole
            h == w \div 3600
            m == (w % 3600) \div 60
            s == w % 60
            ms == RoundHalfEven(f_seconds.frac * 1000, 2048)
        IN  /\ m \in 0..59 /\ s \in 0..59
            /\ f_out = FormatInt(h, 2) \o <<":">> \o FormatInt(m, 2) \o <<":">>
                        \o FormatInt(s, 2) \o <<",">> \o FormatInt(ms, 3)
            /\ (w = 3661 /\ f_seconds.frac = 1024) =>
                    f_out = <<"0", "1", ":", "0", "1", ":", "0", "1", ",", "5", "0", "0">>

\* ======================================================= claims: aligner
\* align_translations_to_srt has returned
Returned == a_pc \in {"done", "written", "shown", "crashed"}

\* C13: align_translations_to_srt returns exactly one aligned entry per input
\* cue, in the same order, entry i carrying cue i's index, start and end
\* unchanged, whatever the length of the translated list and whatever the
\* fallback translation does; the cue list and the translated list are never
\* modified.
C13_OneEntryPerCue ==
    /\ [](/\ a_pc # "escaped"
          /\ Len(aligned) <= Len(srt_subtitles)
          /\ Returned => Len(aligned) = Len(srt_subtitles)
          /\ \A i \in 1..Len(aligned) :
                /\ aligned[i].index = srt_subtitles[i].index
                /\ aligned[i].start = srt_subtitles[i].start
                /\ aligned[i].end = srt_subtitles[i].end)
    /\ [][/\ srt_subtitles' = srt_subtitles
          /\ translated_dialogue' = translated_dialogue]_vars

C13_Witness ==
    /\ a_pc = "done"
    /\ Len(srt_subtitles) = 2
    /\ Len(translated_dialogue) = 1
    /\ Len(aligned) = 2
    /\ Len(tl_outs[2]) = 2
    /\ tl_outs[2][1].out.kind = "raise"
    /\ aligned[2].start = srt_subtitles[2].start
    /\ aligned[2].start # aligned[2].end

\* the number of cues, among the first n, that were served from the list
RECURSIVE ServedCount(_)
ServedCount(n) ==
    IF n = 0 THEN 0
    ELSE ServedCount(n - 1)
         + (IF \E k \in 1..Len(tl_outs[n]) : tl_outs[n][k].max_retries = 3
            THEN 0 ELSE 1)

\* C14: translated lines are consumed strictly by position: the cursor has
\* advanced by exactly one for each cue served from the list and by nothing
\* else, so for every i up to min(len(cues), len(translated)) the text of
\* aligned entry i is translated[i].text, unless that text carries the
\* failure sentinel and a retry replaced it.
C14_ConsumedByPosition ==
    /\ td_index = ServedCount(Len(aligned))
    /\ td_index = Min2(Len(aligned), Len(translated_dialogue))
    /\ \A i \in 1..Min2(Len(aligned), Len(translated_dialogue)) :
          \/ aligned[i].translated_text = translated_dialogue[i].text
          \/ /\ StartsWith(translated_dialogue[i].text, Sentinel)
             /\ Len(tl_outs[i]) = 1
             /\ tl_outs[i][1].max_retries = 1
             /\ tl_outs[i][1].out.kind = "return"
             /\ aligned[i].translated_text = tl_outs[i][1].out.value

C14_Witness ==
    /\ a_pc = "done"
    /\ Len(srt_subtitles) = 2
    /\ Len(translated_dialogue) = 3
    /\ td_index = 2
    /\ StartsWith(translated_dialogue[1].text, Sentinel)
    /\ aligned[1].translated_text = Translated
    /\ ~StartsWith(translated_dialogue[2].text, Sentinel)
    /\ aligned[2].translated_text = translated_dialogue[2].text

\* a translate_line outcome that is a failure: it raised, or it returned a
\* sentinel-marked string
Failed(o) == o.kind = "raise" \/ StartsWith(o.value, Sentinel)

\* C15: per cue, translate_line is invoked zero times for a cue served from
\* the translated list whose text has no failure sentinel, exactly once as
\* fallback for each cue beyond the end of the list, and in either case at
\* most once more as a retry, made only when the current text starts with the
\* failure sentinel; never more than twice for any cue.
C15_BoundedCalls ==
    \A i \in 1..Len(tl_outs) :
        LET calls == tl_outs[i]
            served == i <= Len(translated_dialogue)
            fallbacks == {k \in 1..Len(calls) : calls[k].max_retries = 3}
            retries == {k \in 1..Len(calls) : calls[k].max_retries = 1}
        IN  /\ Len(calls) <= 2
            /\ \A k \in 1..Len(calls) : calls[k].text = srt_subtitles[i].text
            /\ (served /\ ~StartsWith(translated_dialogue[i].text, Sentinel))
                    => calls = <<>>
            /\ fallbacks = IF served THEN {} ELSE {1}
            /\ Cardinality(retries) <= 1
            /\ retries # {} =>
                    IF served
                    THEN StartsWith(translated_dialogue[i].text, Sentinel)
                    ELSE Failed(calls[1].out)

C15_Witness ==
    /\ a_pc = "done"
    /\ Len(srt_subtitles) = 2
    /\ Len(translated_dialogue) = 1
    /\ tl_outs[1] = <<>>
    /\ Len(tl_outs[2]) = 2
    /\ tl_outs[2][1].max_retries = 3
    /\ tl_outs[2][2].max_retries = 1

\* C16: a failure of translate_line never escapes align_translations_to_srt:
\* when every call made for a cue raised or returned a sentinel-marked
\* string, the cue is still emitted, with a translated_text that starts with
\* the sentinel, and the other cues are unaffected (a cue without calls has
\* its translated line, a cue whose last call succeeded has that result).
C16_FailureContained ==
    /\ a_pc # "escaped"
    /\ a_error # "Exception"
    /\ \A i \in 1..Len(aligned) :
        LET calls == tl_outs[i]
        IN  /\ (calls # <<>> /\ \A k \in 1..Len(calls) : Failed(calls[k].out))
                    => StartsWith(aligned[i].translated_text, Sentinel)
            /\ calls = <<>> =>
                    aligned[i].translated_text = translated_dialogue[i].text
            /\ (calls # <<>> /\ ~Failed(calls[Len(calls)].out))
                    => aligned[i].translated_text = calls[Len(calls)].out.value

C16_Witness ==
    /\ a_pc = "done"
    /\ Len(srt_subtitles) = 2
    /\ Len(translated_dialogue) = 1
    /\ tl_outs[1] = <<>>
    /\ aligned[1].translated_text = translated_dialogue[1].text
    /\ Len(tl_outs[2]) = 2
    /\ tl_outs[2][1].out.kind = "raise"
    /\ tl_outs[2][2].out.kind = "raise"
    /\ aligned[2].translated_text = Sentinel \o <<" ">> \o srt_subtitles[2].text

\* the outcome recorded for the call of a cue made with max_retries = mr;
\* a call that was not made has no recorded outcome
NotRecorded == [kind |-> "return", value |-> <<"?">>]

OutOf(calls, mr) ==
    IF \E k \in 1..Len(calls) : calls[k].max_retries = mr
    THEN calls[CHOOSE k \in 1..Len(calls) : calls[k].max_retries = mr].out
    ELSE NotRecorded

\* the list align_translations_to_srt returns for cues and dialogue when
\* translate_line behaves as recorded in outs, from cue i on
RECURSIVE RunFrom(_, _, _, _, _)
RunFrom(cues, dialogue, outs, i, index) ==
    IF i > Len(cues) THEN <<>>
    ELSE LET r == AlignStep(cues[i], dialogue, index,
                            OutOf(outs[i], 3), OutOf(outs[i], 1))
         IN  <<r.entry>> \o RunFrom(cues, dialogue, outs, i + 1, r.td_index)

\* C17: with more translated lines than cues the surplus lines are dropped
\* without error: the function returns, and its result is the result it
\* gives for the translated list truncated to its first len(cues) entries.
C17_SurplusDropped ==
    Len(translated_dialogue) > Len(srt_subtitles) =>
        /\ a_pc # "escaped"
        /\ Returned =>
            aligned = RunFrom(srt_subtitles,
                              SubSeq(translated_dialogue, 1, Len(srt_subtitles)),
                              tl_outs, 1, 0)

C17_Witness ==
    /\ a_pc = "done"
    /\ Len(srt_subtitles) = 2
    /\ Len(translated_dialogue) = 3
    /\ StartsWith(translated_dialogue[2].text, Sentinel)
    /\ tl_outs[2] # <<>>
    /\ aligned[2].translated_text = Translated
    /\ aligned[1].translated_text = translated_dialogue[1].text

\* C18: rendering the aligner's output never raises: for every list
\* align_translations_to_srt returned, entries carrying the sentinel
\* included, write_srt_file and display_translation_stats complete.
C18_RenderingNeverRaises ==
    /\ a_pc # "crashed"
    /\ a_pc \in {"written", "shown"} => a_error = ""

\* ====================================================== claims: dialogue
\* the speaker a cue text parses to: the part before the first colon,
\* "Unknown" when the text has no colon
SpeakerOf(text) ==
    IF \E k \in 1..Len(text) : text[k] = ":"
    THEN Strip(SubSeq(text, 1, (CHOOSE k \in 1..Len(text) :
                    text[k] = ":" /\ \A j \in 1..(k - 1) : text[j] # ":") - 1))
    ELSE Unknown

\* the utterance of a cue text: the text after the first colon
UtteranceOf(text) ==
    IF \E k \in 1..Len(text) : text[k] = ":"
    THEN SubSeq(text, (CHOOSE k \in 1..Len(text) :
                    text[k] = ":" /\ \A j \in 1..(k - 1) : text[j] # ":") + 1, Len(text))
    ELSE text

\* the last cue of the maximal run of one speaker that starts at cue i
RunEndFrom(subs, i) ==
    CHOOSE e \in i..Len(subs) :
        /\ \A j \in i..e : SpeakerOf(subs[j].text) = SpeakerOf(subs[i].text)
        /\ e = Len(subs) \/ SpeakerOf(subs[e + 1].text) # SpeakerOf(subs[i].text)

\* the utterances of cues i..e joined by spaces and whitespace-normalized
ParagraphOf(subs, i, e) ==
    JoinWith(SplitWs(JoinWith([j \in 1..(e - i + 1) |->
                                    UtteranceOf(subs[i + j - 1].text)], <<" ">>)),
             <<" ">>)

RECURSIVE ExpectedParagraphs(_, _)
ExpectedParagraphs(subs, i) ==
    IF i > Len(subs) THEN <<>>
    ELSE <<ParagraphOf(subs, i, RunEndFrom(subs, i))>>
         \o ExpectedParagraphs(subs, RunEndFrom(subs, i) + 1)

\* C20: save_dialogue_txt writes exactly one paragraph per maximal run of
\* consecutive cues that parse to the same speaker, in cue order; each
\* paragraph is the run's utterances (the text after the first colon) joined
\* by single spaces and whitespace-normalized, without the speaker label;
\* 'Alice: Hi', 'Alice: there', 'Bob: Hello' give 'Hi there' and 'Hello'.
C20_OneParagraphPerRun ==
    d_pc = "done" =>
        LET expected == ExpectedParagraphs(d_subtitles, 1)
        IN  /\ Len(d_file) = Len(expected)
            /\ \A k \in 1..Len(expected) : d_file[k] = expected[k] \o <<"\n", "\n">>
            /\ d_subtitles = AliceBobCues =>
                    d_file = << <<"H", "i", " ", "t", "h", "e", "r", "e", "\n", "\n">>, <<"H", "e", "l", "l", "o", "\n", "\n">> >>

C20_Witness ==
    /\ d_pc = "done"
    /\ d_subtitles = AliceBobCues
    /\ Len(d_file) = 2
    /\ d_file[1] = <<"H", "i", " ", "t", "h", "e", "r", "e", "\n", "\n">>

\* ======================================================= claims: parsers
\* the pair the "Speaker: text" rule gives for a line: the trimmed parts
\* before and after the first colon, or Unknown and the whole trimmed line
RulePair(line) ==
    IF Contains(line, ":")
    THEN [speaker |-> SpeakerOf(line), text |-> Strip(UtteranceOf(line))]
    ELSE [speaker |-> Unknown, text |-> Strip(line)]

AllParsed == p_pc = "run" /\ p_fmt # None /\ p_script # None /\ p_trans # None

\* what each parser returned, as a sequence of (speaker, text) pairs
FmtPairs == <<[speaker |-> p_fmt[1].speaker, text |-> p_fmt[1].utterance]>>

\* C21 as stated: for every line the three parsers return the same
\* (speaker, text) pair, the trimmed parts around the first colon or Unknown
\* with the whole trimmed line.
C21_SameRuleEveryLine ==
    AllParsed =>
        /\ FmtPairs = <<RulePair(p_line)>>
        /\ p_script[1] = FmtPairs
        /\ p_trans[1] = FmtPairs

\* C21 amended: the three parsers return the same pair for every line that
\* is not blank; a blank line is skipped by parse_script_file and
\* parse_translated_dialogue, while parse_speaker_and_text returns Unknown
\* with the empty text for it.
C21_SameRuleNonBlank ==
    AllParsed =>
        /\ FmtPairs = <<RulePair(p_line)>>
        /\ p_script[1] = p_trans[1]
        /\ p_script[1] = IF Strip(p_line) = <<>> THEN <<>> ELSE FmtPairs

C21_Witness ==
    /\ AllParsed
    /\ Len(p_line) = 4
    /\ p_line[2] = ":" /\ p_line[4] = ":"
    /\ p_line[1] = "A"
    /\ p_trans[1] = <<[speaker |-> <<"A">>, text |-> SubSeq(p_line, 3, 4)]>>

\* ================================================ claims: wrapper, stages
\* smart_wrap has returned for the call (wtext, wmax)
Wrapped == wpc \in {"wrapped", "rewrapped"}

\* the whitespace-normalized text and its tokens
WNorm == JoinWith(SplitWs(wtext), <<" ">>)
WToks == SplitOn(WNorm, " ")

\* a token without its surrounding punctuation
Bare(tok) == StripChars(tok, {" ", ",", ".", ";", ":", "!", "?", "\"", "'"})

\* a word that starts with an upper-case letter
Capitalized(word) == word # <<>> /\ word[1] \in Upper

\* a word of at most three characters, all lower-case: it has a lower-case
\* letter and no upper-case or titlecase one
Small(word) ==
    /\ Len(word) <= 3
    /\ \E k \in 1..Len(word) : word[k] \in Lower
    /\ \A k \in 1..Len(word) : word[k] \notin Upper \cup Title

\* the two lines of the split after token i
LeftOf(i) == JoinWith(SubSeq(WToks, 1, i), <<" ">>)
RightOf(i) == JoinWith(SubSeq(WToks, i + 1, Len(WToks)), <<" ">>)

\* the boundaries that pass the rejection rules and leave both sides <= N
Surviving ==
    {i \in 1..(Len(WToks) - 1) :
        /\ ~(Capitalized(Bare(WToks[i])) /\ Capitalized(Bare(WToks[i + 1])))
        /\ ~Small(Bare(WToks[i]))
        /\ ~Small(Bare(WToks[i + 1]))
        /\ Len(LeftOf(i)) <= wmax
        /\ Len(RightOf(i)) <= wmax}

WTarget == Min2(wmax, Max2(Len(WNorm) \div 2, 1))

\* the split at a surviving boundary whose first line is at minimal distance
\* from target among the surviving boundaries was returned
BestSurvivingReturned ==
    \E i \in Surviving :
        /\ wlines = <<LeftOf(i), RightOf(i)>>
        /\ \A j \in Surviving :
            Abs(Len(LeftOf(i)) - WTarget) <= Abs(Len(LeftOf(j)) - WTarget)

\* C23, as stated: when at least one inter-token boundary passes the
\* rejection rules and leaves both sides <= N, smart_wrap returns the split
\* at such a surviving boundary, the length of its first line being at
\* minimal distance from target = min(N, max(len(normalized) // 2, 1)) among
\* the surviving boundaries; it never returns a rejected boundary in that
\* case.
C23_BestSurvivingBoundary ==
    (Wrapped /\ Surviving # {}) =>
        /\ wstage = "candidate"
        /\ BestSurvivingReturned

\* C23, amended: a normalized text of at most N characters is returned as
\* the only line, whatever boundaries it has; for a longer one, when at
\* least one inter-token boundary passes the rejection rules and leaves both
\* sides <= N, smart_wrap returns the split at such a surviving boundary,
\* the length of its first line being at minimal distance from target among
\* the surviving boundaries, and never a rejected boundary.
C23_BestSurvivingWhenTooLong ==
    Wrapped =>
        /\ Len(WNorm) <= wmax => (wstage = "single" /\ wlines = <<WNorm>>)
        /\ (Len(WNorm) > wmax /\ Surviving # {}) =>
            /\ wstage = "candidate"
            /\ BestSurvivingReturned

C23_Witness ==
    /\ wpc = "wrapped"
    /\ Len(WNorm) > wmax
    /\ Cardinality(Surviving) >= 2
    /\ wstage = "candidate"
    /\ \E j \in Surviving : Len(LeftOf(j)) # Len(wlines[1])

\* the positions p of the spaces of the normalized text at which both
\* substrings, before and after the space, have length <= N
FitSpaces ==
    {p \in 1..Len(WNorm) :
        /\ WNorm[p] = " "
        /\ p - 1 <= wmax
        /\ Len(WNorm) - p <= wmax}

\* the hard truncation happened only without a fitting space, and gave the
\* first N characters and the next N of the remainder
TruncatedOnlyWithoutSpace ==
    wstage = "truncate" =>
        /\ FitSpaces = {}
        /\ wlines = <<SubSeq(WNorm, 1, wmax),
                      SubSeq(WNorm, wmax + 1, Min2(2 * wmax, Len(WNorm)))>>

\* the result is the split at a fitting space, chosen by the candidate stage
\* or else by the character fallback as the space nearest to target,
\* target - radius being examined before target + radius
SplitAtFittingSpace ==
    /\ wstage \in {"candidate", "fallback"}
    /\ \E p \in FitSpaces :
        /\ wlines = <<SubSeq(WNorm, 1, p - 1), SubSeq(WNorm, p + 1, Len(WNorm))>>
        /\ wstage = "fallback" =>
            \A q \in FitSpaces :
                \/ Abs(p - 1 - WTarget) < Abs(q - 1 - WTarget)
                \/ /\ Abs(p - 1 - WTarget) = Abs(q - 1 - WTarget)
                   /\ p <= q

\* C24, as stated: smart_wrap hard-truncates (first N characters, then the
\* next N of the remainder) only when the normalized text has no space at
\* which both substrings have length <= N; whenever such a space exists,
\* the result is a split at a space, chosen by the candidate stage or else
\* by the character fallback as the space nearest to target, target - radius
\* being examined before target + radius.
C24_TruncateOnlyWithoutSpace ==
    Wrapped =>
        /\ TruncatedOnlyWithoutSpace
        /\ FitSpaces # {} => SplitAtFittingSpace

\* C24, amended: smart_wrap hard-truncates only when the normalized text has
\* no space at which both substrings have length <= N; a normalized text of
\* at most N characters is returned as the only line, also when it has such
\* a space; whenever a longer one has such a space, the result is a split
\* at such a space, chosen by the candidate stage or else by the character
\* fallback as the space nearest to target, target - radius being examined
\* before target + radius.
C24_SpaceSplitWhenTooLong ==
    Wrapped =>
        /\ TruncatedOnlyWithoutSpace
        /\ Len(WNorm) <= wmax => (wstage = "single" /\ wlines = <<WNorm>>)
        /\ (Len(WNorm) > wmax /\ FitSpaces # {}) => SplitAtFittingSpace

C24_Witness ==
    /\ wpc = "wrapped"
    /\ wstage = "fallback"
    /\ \E p \in FitSpaces, q \in FitSpaces :
        /\ p < q
        /\ Abs(p - 1 - WTarget) = Abs(q - 1 - WTarget)
        /\ Len(wlines[1]) = p - 1

\* the boundaries immediately before a small word that leave both sides
\* <= N and whose left neighbour is not itself a small word
BeforeSmall ==
    {i \in 1..(Len(WToks) - 1) :
        /\ Small(WToks[i + 1])
        /\ ~Small(Bare(WToks[i]))
        /\ Len(LeftOf(i)) <= wmax
        /\ Len(RightOf(i)) <= wmax}

\* C28: a boundary immediately before a small word (length <= 3, all
\* lower-case) is a usable split candidate: a text too long for one line that
\* has such a boundary with both sides <= N is split by the candidate stage,
\* not by the character fallback.
C28_SmallWordBoundaryUsable ==
    (Wrapped /\ Len(WNorm) > wmax /\ BeforeSmall # {}) => wstage = "candidate"

\* the returned lines hold the whole normalized text and are clean
Lossless ==
    /\ JoinWith(wlines, <<" ">>) = WNorm
    /\ \A k \in 1..Len(wlines) :
        /\ wlines[k] # <<>>
        /\ wlines[k][1] # " "
        /\ wlines[k][Len(wlines[k])] # " "

\* C29 as stated: whenever the result comes from the single-line case, the
\* candidate stage or the character fallback, joining the returned lines
\* with one space gives exactly the whitespace-normalized input, and neither
\* line is empty or starts or ends with a space.
C29_LosslessOutsideTruncation ==
    (Wrapped /\ wstage # "truncate") => Lossless

\* C29 amended: the same for every text that has a non-whitespace
\* character; a text that is empty or all whitespace is returned as the
\* single empty line.
C29_LosslessNonBlank ==
    (Wrapped /\ wstage # "truncate") =>
        IF WNorm = <<>> THEN wlines = << <<>> >> /\ wstage = "single"
        ELSE Lossless

C29_Witness ==
    /\ wpc = "wrapped"
    /\ wstage = "fallback"
    /\ wtext # WNorm
    /\ Len(wlines) = 2
    /\ Len(wlines[1]) + Len(wlines[2]) + 1 = Len(WNorm)

\* ============================================ claims: segmenter, duration
\* C27: max_duration is the maximum length of a single subtitle: when no
\* single word lasts longer than max_duration, every cue emitted by
\* group_into_sentences has end - start <= max_duration.
C27_CueWithinMaxDuration ==
    (pc = "done" /\ \A k \in 1..Len(words) : words[k].end - words[k].start <= max_duration)
        => \A j \in 1..Len(subtitles) :
                subtitles[j].end - subtitles[j].start <= max_duration

\* ==================================================== claims: translation
\* the call of translate_line or translate_scene is over
Finished == t_pc \in {"returned", "raised"}

\* the requests whose answer is a usable translation of the cleaned t_text
GoodAnswers ==
    {k \in 1..t_max_retries :
        /\ t_responses[k].kind = "text"
        /\ Strip(t_responses[k].value) # <<>>
        /\ Strip(t_responses[k].value) # clean_japanese_text(t_text)}

\* C25: translate_line with the service available makes at most max_retries
\* requests: it returns the first answer that is non-empty and differs from
\* the cleaned text, making no request after it; if every attempt raises or
\* gives an empty or identical answer it returns "[TRANSLATION FAILED] " and
\* the cleaned text; it never raises.
C25_BoundedRetries ==
    (t_fn = "translate_line" /\ Finished) =>
        /\ t_pc # "raised"
        /\ t_env.GEMINI_AVAILABLE =>
            /\ t_requests <= t_max_retries
            /\ IF GoodAnswers # {}
               THEN LET k == CHOOSE g \in GoodAnswers : \A h \in GoodAnswers : g <= h
                    IN  t_result = Strip(t_responses[k].value) /\ t_requests = k
               ELSE t_result = Sentinel \o <<" ">> \o clean_japanese_text(t_text)

\* C26: translate_scene never raises: when the service is not available
\* (missing API key or library) or the model request fails, it returns the
\* original dialogue as one "speaker: text" line per entry, in input order.
C26_SceneNeverRaises ==
    (t_fn = "translate_scene" /\ Finished) =>
        /\ t_pc # "raised"
        /\ (~t_env.GEMINI_AVAILABLE \/ t_responses[1].kind = "raise") =>
            t_result = JoinWith([k \in 1..Len(t_dialogue) |->
                                    t_dialogue[k].speaker \o <<":", " ">>
                                        \o t_dialogue[k].text], <<"\n">>)

\* ======================================================= claims: pipeline
\* the number of the dialogue paragraph that holds cue i: save_dialogue_txt
\* starts a new paragraph at every change of speaker
ParagraphIndex(subs, i) ==
    1 + Cardinality({k \in 2..i : SpeakerOf(subs[k].text) # SpeakerOf(subs[k - 1].text)})

\* C22: in the /process pipeline, with a translator that returns exactly one
\* translated line per submitted dialogue line, in order, a request whose
\* dialogue was handed to the translator ends with every cue carrying the
\* translation of the dialogue paragraph that contains the cue's words,
\* also when save_dialogue_txt merged consecutive cues of one speaker into
\* one paragraph.
C22_CueGetsItsParagraph ==
    (pl_pc = "delivered" /\ pl_translated # None) =>
        /\ Len(aligned) = Len(d_subtitles)
        /\ \A i \in 1..Len(aligned) :
              /\ ParagraphIndex(d_subtitles, i) <= Len(pl_dialogue)
              /\ aligned[i].translated_text =
                    Tr(pl_dialogue[ParagraphIndex(d_subtitles, i)].text)

\* C30: the output video is still present when the response is delivered:
\* after a successful run the temporary directory with final_output.mp4 is
\* not removed before the FileResponse has read and sent the file; on every
\* failure path the temporary directory is removed.
C30_VideoPresentAtDelivery ==
    pl_pc = "delivered" =>
        /\ pl_response.kind = "FileResponse" => pl_sent = "video"
        /\ pl_response.kind = "JSONResponse" => pl_tmpdir = None

====
